---- MODULE Spec2Model ----
(***************************************************************************)
(* A model of the `browse` file browser: the lazy tree model and its       *)
(* flattener (src/src/tree.rs), the application state and its commands     *)
(* (src/src/app.rs) and the viewport windowing of the tree panel           *)
(* (src/src/ui.rs, src/src/app.rs).                                        *)
(*                                                                         *)
(* Strings are sequences of character codes, so that `starts_with('.')`,   *)
(* `to_lowercase` and the byte-wise string order are computed, not         *)
(* assumed.  A path is the sequence of the names below the root; the root  *)
(* itself is the empty sequence.                                           *)
(***************************************************************************)
EXTENDS Integers, Sequences, FiniteSets, TLC

VARIABLES
    disk,               \* the filesystem: the set of paths that exist
    enum_rev,           \* the filesystem: the order read_dir enumerates in
    tree,               \* App.tree
    expanded,           \* App.expanded
    visible_rows,       \* App.visible_rows
    selected_index,     \* App.selected_index (0-based, as in the source)
    show_hidden,        \* App.show_hidden
    preview_scroll,     \* App.preview_scroll
    preview_cache,      \* App.preview_cache
    last_preview_path,  \* App.last_preview_path
    fs_changes,         \* the number of filesystem changes so far
    files,              \* the filesystem: the data of the regular files
    fl,                 \* the call stack and rows of a flatten_tree under way
    fl_steps,           \* the loop iterations that flatten_tree has run
    ansi_src,           \* a line of preview text, as its texts and sequences
    ansi_line,          \* what parse_ansi_line made of that line
    overflow_checks,    \* the build: whether integer overflow panics
    md_src,             \* a markdown text
    md_out,             \* what render_markdown or render_inline made of it
    argv1,              \* the path argument of the command line, if any
    cwd,                \* the current working directory
    started_root        \* the root_path that main has computed

vars == <<disk, enum_rev, tree, expanded, visible_rows, selected_index,
          show_hidden, preview_scroll, preview_cache, last_preview_path,
          fs_changes, files, fl, fl_steps,
          ansi_src, ansi_line, overflow_checks,
          md_src, md_out, argv1, cwd, started_root>>

ansiVars == <<ansi_src, ansi_line, overflow_checks>>
mdVars == <<md_src, md_out>>
startVars == <<argv1, cwd, started_root>>

-----------------------------------------------------------------------------
(* Bounds of the model.                                                    *)

\* the number of changes other processes make to the filesystem in one run
MaxFsChanges == 1
\* the furthest the preview is scrolled
MaxScroll == 3
\* the most runs of equal bytes in the files that are classified
MaxRuns == 2
\* the most parameters that follow the ones under test in a sequence
MaxTail == 1
\* the most pieces of an inline markdown text
MaxPieces == 3
\* the most lines of a markdown document
MaxLines == 2
\* the tallest terminal considered (area.height)
MaxHeight == 6
\* the lowest screen line a click may land on
MaxClickY == 5
\* the number of files of the flat directory of SpecWindow
MaxFiles == 14
\* the tallest terminal, and the lowest click, of SpecWindow
MaxWinHeight == 12
MaxWinClickY == 11
\* the length of the longest chain of nested expanded directories of SpecDeep
MaxChain == 52

-----------------------------------------------------------------------------
(* Characters and strings.                                                 *)

DOT == 46

\* char::to_lowercase, on the ASCII range
Lower(c) == IF c >= 65 /\ c <= 90 THEN c + 32 ELSE c

to_lowercase(s) == [i \in 1..Len(s) |-> Lower(s[i])]

\* Ord for str: byte-wise lexicographic; -1 is Less, 0 Equal, 1 Greater
RECURSIVE StrCmp(_, _)
StrCmp(a, b) ==
    IF Len(a) = 0 THEN (IF Len(b) = 0 THEN 0 ELSE -1)
    ELSE IF Len(b) = 0 THEN 1
    ELSE IF Head(a) < Head(b) THEN -1
    ELSE IF Head(a) > Head(b) THEN 1
    ELSE StrCmp(Tail(a), Tail(b))

starts_with_dot(name) == Len(name) > 0 /\ name[1] = DOT

-----------------------------------------------------------------------------
(* The filesystem.  Every entry's kind is fixed by its name: the names of  *)
(* DirNames are directories, the name of LinkNames is a symbolic link to   *)
(* the root directory, every other name is a regular file.                 *)

NmA == <<97>>
NmB == <<98>>
NmUB == <<66>>
NmC == <<99>>
NmD == <<100>>
NmL == <<108>>
NmY == <<121>>
NmHidG == <<DOT, 103>>
NmHidH == <<DOT, 104>>
NmDirO == <<100, DOT, 111>>
NmXO == <<120, DOT, 79>>
NmT == <<116>>
NmMd == <<114, DOT, 109, 100>>

DirNames == {NmA, NmC, NmD, NmHidH, NmDirO}
LinkNames == {NmL}
LinkTarget == <<>>

root_path == <<>>

\* the paths the filesystem of Spec may hold
Universe ==
    { <<NmA>>, <<NmA, NmC>>, <<NmA, NmC, NmY>>, <<NmA, NmHidG>>,
      <<NmB>>, <<NmHidH>>, <<NmHidH, NmY>> }

Parent(p) == SubSeq(p, 1, Len(p) - 1)
Last(p) == p[Len(p)]
IsPrefix(p, q) == Len(p) <= Len(q) /\ SubSeq(q, 1, Len(p)) = p

\* The real path a path resolves to, following symbolic links component by
\* component; ok is FALSE when a component does not exist.
RECURSIVE Resolve(_, _, _)
Resolve(d, cur, rest) ==
    IF Len(rest) = 0 THEN [ok |-> TRUE, path |-> cur]
    ELSE LET next == Append(cur, Head(rest)) IN
         IF next \notin d THEN [ok |-> FALSE, path |-> <<>>]
         ELSE IF Head(rest) \in LinkNames
              THEN Resolve(d, LinkTarget, Tail(rest))
              ELSE Resolve(d, next, Tail(rest))

canonical(d, p) == Resolve(d, <<>>, p)

\* fs::metadata(path).is_ok()
exists(d, p) == canonical(d, p).ok

\* fs::metadata(path).map(|m| m.is_dir()).unwrap_or(false)
is_dir(d, p) ==
    LET r == canonical(d, p) IN
    r.ok /\ (Len(r.path) = 0 \/ Last(r.path) \in DirNames)

\* the names of the entries of a directory
EntryNames(d, p) ==
    LET r == canonical(d, p).path IN
    { Last(q) : q \in { q \in d : Len(q) = Len(r) + 1 /\ Parent(q) = r } }

\* a set of names as the sequence in ascending byte order
RECURSIVE Ascending(_)
Ascending(S) ==
    IF S = {} THEN <<>>
    ELSE LET m == CHOOSE x \in S : \A y \in S : StrCmp(x, y) <= 0
         IN <<m>> \o Ascending(S \ {m})

Reverse(s) == [i \in 1..Len(s) |-> s[Len(s) + 1 - i]]

\* fs::read_dir: the entries in the order this filesystem enumerates them
read_dir(d, rev, p) ==
    IF rev THEN Reverse(Ascending(EntryNames(d, p)))
    ELSE Ascending(EntryNames(d, p))

-----------------------------------------------------------------------------
(* tree.rs: the tree model.                                                *)

\* Option<Vec<TreeNode>>
None == [some |-> FALSE]
Some(v) == [some |-> TRUE, v |-> v]

\* the TreeNode build_tree pushes for the entry `name` of `dir_path`
TreeNode(d, dir_path, name) ==
    LET path == Append(dir_path, name)
        is_symlink == name \in LinkNames
    IN [ name |-> name,
         path |-> path,
         is_directory |-> IF is_symlink THEN is_dir(d, path)
                          ELSE name \in DirNames,
         is_symlink |-> is_symlink,
         children |-> None ]

\* the comparator of nodes.sort_by: directories first, then the lowercased
\* names in string order
node_cmp(a, b) ==
    IF a.is_directory # b.is_directory
    THEN (IF a.is_directory THEN -1 ELSE 1)
    ELSE StrCmp(to_lowercase(a.name), to_lowercase(b.name))

\* slice::sort_by is a stable sort: an element is placed after every
\* earlier element it does not compare Less than
RECURSIVE InsertSorted(_, _)
InsertSorted(sorted, x) ==
    IF Len(sorted) = 0 THEN <<x>>
    ELSE IF node_cmp(x, sorted[Len(sorted)]) < 0
         THEN Append(InsertSorted(SubSeq(sorted, 1, Len(sorted) - 1), x),
                     sorted[Len(sorted)])
         ELSE Append(sorted, x)

RECURSIVE sort_by(_)
sort_by(nodes) ==
    IF Len(nodes) = 0 THEN <<>>
    ELSE InsertSorted(sort_by(SubSeq(nodes, 1, Len(nodes) - 1)),
                      nodes[Len(nodes)])

\* the nodes of one enumeration, before the sort
nodes_of(d, dir_path, names) ==
    [i \in 1..Len(names) |-> TreeNode(d, dir_path, names[i])]

build_tree(d, rev, dir_path) ==
    IF ~is_dir(d, dir_path) THEN <<>>
    ELSE sort_by(nodes_of(d, dir_path, read_dir(d, rev, dir_path)))

load_children(d, rev, node) ==
    IF ~node.is_directory THEN node
    ELSE [node EXCEPT !.children = Some(build_tree(d, rev, node.path))]

MAX_TREE_DEPTH == 50

VisibleRow(node, idx_path, depth, is_expanded) ==
    [ node_idx |-> idx_path,
      name |-> node.name,
      path |-> node.path,
      is_directory |-> node.is_directory,
      is_symlink |-> node.is_symlink,
      depth |-> depth,
      is_expanded |-> is_expanded ]

\* the hidden-entry filter of flatten_recursive
\* a flatten that filters nothing
is_filtered_never(hid, node) == FALSE

is_filtered(hid, node) == ~hid /\ starts_with_dot(node.name)

\* a flatten_recursive without the recursion bound
depth_unbounded(depth) == FALSE

\* the recursion bound of flatten_recursive
depth_exceeded(depth) == depth > MAX_TREE_DEPTH

\* a recursion that skips a level
child_depth_skip(depth) == depth + 2

\* the depth flatten_recursive recurses with
child_depth(depth) == depth + 1

\* flatten_recursive returns the nodes as it leaves them (children loaded)
\* and the rows it pushed.  flatten_from is its loop from index i (1-based).
RECURSIVE flatten_recursive(_, _, _, _, _, _, _)
RECURSIVE flatten_from(_, _, _, _, _, _, _, _)
flatten_recursive(d, rev, nodes, exp, hid, depth, idx_path) ==
    IF depth_exceeded(depth) THEN [nodes |-> nodes, rows |-> <<>>]
    ELSE flatten_from(d, rev, nodes, 1, exp, hid, depth, idx_path)

flatten_from(d, rev, nodes, i, exp, hid, depth, idx_path) ==
    IF i > Len(nodes) THEN [nodes |-> nodes, rows |-> <<>>]
    ELSE IF is_filtered(hid, nodes[i])
    THEN flatten_from(d, rev, nodes, i + 1, exp, hid, depth, idx_path)
    ELSE
      LET node == nodes[i]
          is_expanded == node.is_directory /\ node.path \in exp
          idx == Append(idx_path, i - 1)
          row == VisibleRow(node, idx, depth, is_expanded)
          loaded == IF is_expanded THEN load_children(d, rev, node) ELSE node
          sub == IF is_expanded /\ loaded.children.some
                 THEN flatten_recursive(d, rev, loaded.children.v, exp, hid,
                                        child_depth(depth), idx)
                 ELSE [nodes |-> <<>>, rows |-> <<>>]
          node2 == IF is_expanded /\ loaded.children.some
                   THEN [loaded EXCEPT !.children = Some(sub.nodes)]
                   ELSE loaded
          rest == flatten_from(d, rev, [nodes EXCEPT ![i] = node2], i + 1,
                               exp, hid, depth, idx_path)
      IN [nodes |-> rest.nodes, rows |-> <<row>> \o sub.rows \o rest.rows]

flatten_tree(d, rev, nodes, exp, hid) ==
    flatten_recursive(d, rev, nodes, exp, hid, 0, <<>>)

\* The same flatten_recursive one loop iteration at a time, with its call
\* stack explicit: a frame is one activation (its nodes, its loop index i,
\* 0-based, its depth and idx_path); pc is "enter" before the depth check
\* and "loop" after it.
Frame(nodes, depth, idx_path) ==
    [nodes |-> nodes, i |-> 0, depth |-> depth, idx_path |-> idx_path,
     pc |-> "enter"]

FlIdle == [stack |-> <<>>, rows |-> <<>>, ret |-> <<>>]

\* flatten_tree calls flatten_recursive on the root nodes
fl_start(nodes) ==
    [stack |-> <<Frame(nodes, 0, <<>>)>>, rows |-> <<>>, ret |-> <<>>]

\* the activation on top returns: its caller keeps the children as the
\* callee left them, pops idx_path and goes on with its next node
fl_return(f) ==
    LET n == Len(f.stack)
        top == f.stack[n]
    IN IF n = 1 THEN [f EXCEPT !.stack = <<>>, !.ret = top.nodes]
       ELSE LET caller == f.stack[n - 1]
                back == [caller EXCEPT
                           !.nodes[caller.i + 1].children = Some(top.nodes),
                           !.i = caller.i + 1]
            IN [f EXCEPT !.stack = Append(SubSeq(f.stack, 1, n - 2), back)]

fl_step(d, rev, exp, hid, f) ==
    LET n == Len(f.stack)
        top == f.stack[n]
    IN IF top.pc = "enter"
       THEN IF depth_exceeded(top.depth) THEN fl_return(f)
            ELSE [f EXCEPT !.stack[n].pc = "loop"]
       ELSE IF top.i >= Len(top.nodes) THEN fl_return(f)
       ELSE LET node == top.nodes[top.i + 1] IN
            IF is_filtered(hid, node) THEN [f EXCEPT !.stack[n].i = top.i + 1]
            ELSE
              LET is_expanded == node.is_directory /\ node.path \in exp
                  idx == Append(top.idx_path, top.i)
                  row == VisibleRow(node, idx, top.depth, is_expanded)
                  loaded == IF is_expanded THEN load_children(d, rev, node)
                            ELSE node
              IN IF is_expanded /\ loaded.children.some
                 THEN [f EXCEPT
                         !.rows = Append(f.rows, row),
                         !.stack = Append(
                             [f.stack EXCEPT ![n].nodes[top.i + 1] = loaded],
                             Frame(loaded.children.v, child_depth(top.depth),
                                   idx))]
                 ELSE [f EXCEPT
                         !.rows = Append(f.rows, row),
                         !.stack[n].nodes[top.i + 1] = loaded,
                         !.stack[n].i = top.i + 1]

\* find_parent_row, on 0-based indices; rows[i] of the source is rows[i + 1]
RECURSIVE find_parent_from(_, _, _, _)
find_parent_from(rows, index, current_depth, i) ==
    IF i < 0 THEN index
    ELSE IF rows[i + 1].depth < current_depth THEN i
    ELSE find_parent_from(rows, index, current_depth, i - 1)

find_parent_row(rows, index) ==
    LET current_depth == IF index < Len(rows) THEN rows[index + 1].depth ELSE 0
    IN IF current_depth = 0 THEN index
       ELSE find_parent_from(rows, index, current_depth, index - 1)

-----------------------------------------------------------------------------
(* preview.rs: the preview of the selected path.  A regular file is the    *)
(* record files holds for it: whether it decodes as UTF-8, and its bytes   *)
(* as a sequence of runs [b |-> byte, n |-> repetitions].  What the        *)
(* markdown renderer and the syntax highlighter make of a text is left     *)
(* out: a Text preview records the text they are handed.                   *)

Count(S) == Cardinality(S)

LF == 10
ChX == 120

MAX_PREVIEW_BYTES == 512 * 1024
MAX_PREVIEW_LINES == 1000

Run(b, n) == [b |-> b, n |-> n]

\* a file that files says nothing about: the one line "x"
DefaultFile == [utf8 |-> TRUE, runs |-> <<Run(ChX, 1), Run(LF, 1)>>]

NoFiles == [p \in {} |-> DefaultFile]

\* the file a path leads to
file_at(d, file_path) ==
    LET c == canonical(d, file_path).path
    IN IF c \in DOMAIN files THEN files[c] ELSE DefaultFile

RECURSIVE SumRuns(_, _)
SumRuns(runs, b) ==
    IF runs = <<>> THEN 0
    ELSE (IF b = -1 \/ Head(runs).b = b THEN Head(runs).n ELSE 0)
         + SumRuns(Tail(runs), b)

\* metadata.len()
file_len(f) == SumRuns(f.runs, -1)

\* the runs with the empty ones dropped and equal neighbours merged
RECURSIVE Canon(_)
Canon(runs) ==
    IF runs = <<>> THEN <<>>
    ELSE IF Head(runs).n = 0 THEN Canon(Tail(runs))
    ELSE LET rest == Canon(Tail(runs)) IN
         IF rest # <<>> /\ Head(rest).b = Head(runs).b
         THEN <<Run(Head(runs).b, Head(runs).n + Head(rest).n)>> \o Tail(rest)
         ELSE <<Head(runs)>> \o rest

\* content.lines().count(): a line ends at each LF, and the bytes after the
\* last LF are one more line
line_count(runs) ==
    LET c == Canon(runs) IN
    SumRuns(c, LF) + (IF c # <<>> /\ c[Len(c)].b # LF THEN 1 ELSE 0)

\* lines[..k].join("\n"): the bytes before the k-th LF
RECURSIVE join_first_lines(_, _)
join_first_lines(runs, k) ==
    IF runs = <<>> THEN <<>>
    ELSE IF Head(runs).b # LF
    THEN <<Head(runs)>> \o join_first_lines(Tail(runs), k)
    ELSE IF Head(runs).n >= k THEN <<Run(LF, k - 1)>>
    ELSE <<Head(runs)>> \o join_first_lines(Tail(runs), k - Head(runs).n)

\* a total_lines taken from the text handed to rendering
text_total_lines_truncated(runs) ==
    line_count(IF line_count(runs) > MAX_PREVIEW_LINES
               THEN join_first_lines(runs, MAX_PREVIEW_LINES) ELSE runs)

\* total_lines = lines.len()
text_total_lines(runs) == line_count(runs)

\* the text handed to rendering
truncated(runs) ==
    IF line_count(runs) > MAX_PREVIEW_LINES
    THEN Canon(join_first_lines(runs, MAX_PREVIEW_LINES))
    ELSE Canon(runs)

\* Path::extension of a file name: what follows the last dot, unless there
\* is none or the only one starts the name
extension(name) ==
    LET dots == { i \in 1..Len(name) : name[i] = DOT } IN
    IF dots = {} THEN None
    ELSE LET k == CHOOSE i \in dots : \A j \in dots : j <= i IN
         IF k = 1 THEN None ELSE Some(SubSeq(name, k + 1, Len(name)))

Upper(c) == IF c >= 97 /\ c <= 122 THEN c - 32 ELSE c

to_uppercase(s) == [i \in 1..Len(s) |-> Upper(s[i])]

BINARY_EXTS ==
    { <<112, 110, 103>>, <<106, 112, 103>>, <<106, 112, 101, 103>>,
      <<103, 105, 102>>, <<98, 109, 112>>, <<105, 99, 111>>,
      <<119, 101, 98, 112>>, <<97, 118, 105, 102>>, <<109, 112, 51>>,
      <<109, 112, 52>>, <<119, 97, 118>>, <<97, 118, 105>>,
      <<109, 107, 118>>, <<109, 111, 118>>, <<102, 108, 97, 99>>,
      <<111, 103, 103>>, <<122, 105, 112>>, <<103, 122>>, <<116, 97, 114>>,
      <<98, 122, 50>>, <<120, 122>>, <<55, 122>>, <<114, 97, 114>>,
      <<112, 100, 102>>, <<100, 111, 99>>, <<100, 111, 99, 120>>,
      <<120, 108, 115>>, <<120, 108, 115, 120>>, <<112, 112, 116>>,
      <<112, 112, 116, 120>>, <<101, 120, 101>>, <<100, 108, 108>>,
      <<115, 111>>, <<100, 121, 108, 105, 98>>, <<98, 105, 110>>, <<111>>,
      <<97>>, <<119, 111, 102, 102>>, <<119, 111, 102, 102, 50>>,
      <<116, 116, 102>>, <<111, 116, 102>>, <<101, 111, 116>>,
      <<115, 113, 108, 105, 116, 101>>, <<100, 98>> }

is_likely_binary(file_path) ==
    LET e == extension(Last(file_path)) IN
    e.some /\ to_lowercase(e.v) \in BINARY_EXTS

\* {:.1} of bytes / unit: tenths, a tie going to the even digit
Tenths(bytes, unit) ==
    LET q == (bytes * 10) \div unit
        r == (bytes * 10) % unit
    IN IF 2 * r > unit \/ (2 * r = unit /\ q % 2 = 1) THEN q + 1 ELSE q

format_size(bytes) ==
    IF bytes < 1024 THEN [unit |-> "B", n |-> bytes]
    ELSE IF bytes < 1024 * 1024
    THEN [unit |-> "KB", tenths |-> Tenths(bytes, 1024)]
    ELSE IF bytes < 1024 * 1024 * 1024
    THEN [unit |-> "MB", tenths |-> Tenths(bytes, 1024 * 1024)]
    ELSE [unit |-> "GB", tenths |-> Tenths(bytes, 1024 * 1024 * 1024)]

MD == <<109, 100>>
MDX == <<109, 100, 120>>

\* a ceiling that the ceiling itself exceeds
over_ceiling_inclusive(len) == len >= MAX_PREVIEW_BYTES

\* metadata.len() > MAX_PREVIEW_BYTES
over_ceiling(len) == len > MAX_PREVIEW_BYTES

\* the Binary preview
binary_preview(file_path, f) ==
    [ content |-> [kind |-> "Binary",
                   ext |-> to_uppercase(extension(Last(file_path)).v),
                   size |-> format_size(file_len(f))],
      total_lines |-> 2 ]

\* preview of a file that is not empty and has no binary extension
text_preview(file_path, f) ==
    IF over_ceiling(file_len(f))
    THEN [ content |-> [kind |-> "Text", render |-> "too_large",
                        size |-> format_size(file_len(f))],
           total_lines |-> 1 ]
    ELSE IF ~f.utf8
    THEN [content |-> [kind |-> "Error"], total_lines |-> 1]
    ELSE LET e == extension(Last(file_path))
             ext == IF e.some THEN to_lowercase(e.v) ELSE <<>>
         IN [ content |-> [kind |-> "Text",
                           render |-> IF ext = MD \/ ext = MDX
                                      THEN "markdown" ELSE "code",
                           src |-> truncated(f.runs)],
              total_lines |-> text_total_lines(f.runs) ]

\* a preview that checks for the empty file before the binary extension
preview_file_empty_first(file_path, f) ==
    IF file_len(f) = 0
    THEN [content |-> [kind |-> "Empty"], total_lines |-> 1]
    ELSE IF is_likely_binary(file_path) THEN binary_preview(file_path, f)
    ELSE text_preview(file_path, f)

\* preview of a path that is no directory, from the binary check on
preview_file(file_path, f) ==
    IF is_likely_binary(file_path) THEN binary_preview(file_path, f)
    ELSE IF file_len(f) = 0
    THEN [content |-> [kind |-> "Empty"], total_lines |-> 1]
    ELSE text_preview(file_path, f)

preview_directory(d, rev, dir_path) ==
    LET names == EntryNames(d, dir_path)
        dirs == Count({n \in names : n \in DirNames})
    IN [ content |-> [kind |-> "Directory", total |-> Count(names),
                      dirs |-> dirs, files |-> Count(names) - dirs],
         total_lines |-> 1 ]

preview(d, rev, file_path) ==
    IF ~exists(d, file_path)
    THEN [content |-> [kind |-> "Error"], total_lines |-> 1]
    ELSE IF is_dir(d, file_path) THEN preview_directory(d, rev, file_path)
    ELSE preview_file(file_path, file_at(d, file_path))

-----------------------------------------------------------------------------
(* ansi.rs: parse_ansi_line.  The input is its bytes; a style is the four  *)
(* fields of ratatui's Style that the parser sets.                         *)

ESC == 27
LBRACKET == 91
SEMICOLON == 59
LOWER_M == 109
DIGIT_0 == 48
\* the values of a u16: 0 .. U16 - 1
U16 == 65536
\* the values of a u8: 0 .. U8 - 1
U8 == 256

Color(name) == [c |-> name, v |-> <<>>]
Indexed(n) == [c |-> "Indexed", v |-> <<n>>]
Rgb(r, g, b) == [c |-> "Rgb", v |-> <<r, g, b>>]

\* Style::default()
Style_default == [fg |-> None, bg |-> None, add |-> {}, sub |-> {}]

\* a modifier set in place of the ones accumulated
add_modifier_replace(style, m) ==
    [style EXCEPT !.sub = @ \ m, !.add = m]

\* Style::add_modifier
add_modifier(style, m) ==
    [style EXCEPT !.sub = @ \ m, !.add = @ \cup m]

\* a removal that clears every modifier
remove_modifier_all(style, m) ==
    [style EXCEPT !.add = {}, !.sub = @ \cup m]

\* Style::remove_modifier
remove_modifier(style, m) ==
    [style EXCEPT !.add = @ \ m, !.sub = @ \cup m]

\* Style::fg and Style::bg
set_ground(style, ground, color) ==
    IF ground = "fg" THEN [style EXCEPT !.fg = Some(color)]
    ELSE [style EXCEPT !.bg = Some(color)]

\* `as u8`
as_u8(n) == n % U8

basic_color(n) ==
    CASE n = 0 -> Color("Black")
      [] n = 1 -> Color("Red")
      [] n = 2 -> Color("Green")
      [] n = 3 -> Color("Yellow")
      [] n = 4 -> Color("Blue")
      [] n = 5 -> Color("Magenta")
      [] n = 6 -> Color("Cyan")
      [] n = 7 -> Color("White")
      [] OTHER -> Color("Reset")

bright_color(n) ==
    CASE n = 0 -> Color("DarkGray")
      [] n = 1 -> Color("LightRed")
      [] n = 2 -> Color("LightGreen")
      [] n = 3 -> Color("LightYellow")
      [] n = 4 -> Color("LightBlue")
      [] n = 5 -> Color("LightMagenta")
      [] n = 6 -> Color("LightCyan")
      [] n = 7 -> Color("White")
      [] OTHER -> Color("Reset")

\* the result of one parameter: the style, and pi before its increment
SgrResult(style, pi) == [style |-> style, pi |-> pi]

\* 38 / 48 with the parameters it consumed left to be interpreted
extended_color_no_skip(params, pi, style, ground) ==
    IF pi + 1 < Len(params)
    THEN IF params[pi + 2] = 5 /\ pi + 2 < Len(params)
         THEN SgrResult(set_ground(style, ground,
                                   Indexed(as_u8(params[pi + 3]))), pi)
         ELSE IF params[pi + 2] = 2 /\ pi + 4 < Len(params)
         THEN SgrResult(set_ground(style, ground,
                                   Rgb(as_u8(params[pi + 3]),
                                       as_u8(params[pi + 4]),
                                       as_u8(params[pi + 5]))), pi)
         ELSE SgrResult(style, pi)
    ELSE SgrResult(style, pi)

\* the arms 38 and 48 (pi is 0-based as in the source, params 1-based)
extended_color(params, pi, style, ground) ==
    IF pi + 1 < Len(params)
    THEN IF params[pi + 2] = 5 /\ pi + 2 < Len(params)
         THEN SgrResult(set_ground(style, ground,
                                   Indexed(as_u8(params[pi + 3]))), pi + 2)
         ELSE IF params[pi + 2] = 2 /\ pi + 4 < Len(params)
         THEN SgrResult(set_ground(style, ground,
                                   Rgb(as_u8(params[pi + 3]),
                                       as_u8(params[pi + 4]),
                                       as_u8(params[pi + 5]))), pi + 4)
         ELSE SgrResult(style, pi)
    ELSE SgrResult(style, pi)

\* the match on params[pi]
sgr_param(params, pi, style) ==
    LET p == params[pi + 1] IN
    CASE p = 0 -> SgrResult(Style_default, pi)
      [] p = 1 -> SgrResult(add_modifier(style, {"BOLD"}), pi)
      [] p = 2 -> SgrResult(add_modifier(style, {"DIM"}), pi)
      [] p = 3 -> SgrResult(add_modifier(style, {"ITALIC"}), pi)
      [] p = 4 -> SgrResult(add_modifier(style, {"UNDERLINED"}), pi)
      [] p = 7 -> SgrResult(add_modifier(style, {"REVERSED"}), pi)
      [] p = 9 -> SgrResult(add_modifier(style, {"CROSSED_OUT"}), pi)
      [] p = 22 -> SgrResult(remove_modifier(style, {"BOLD", "DIM"}), pi)
      [] p = 23 -> SgrResult(remove_modifier(style, {"ITALIC"}), pi)
      [] p = 24 -> SgrResult(remove_modifier(style, {"UNDERLINED"}), pi)
      [] p = 27 -> SgrResult(remove_modifier(style, {"REVERSED"}), pi)
      [] p \in 30..37 ->
            SgrResult(set_ground(style, "fg", basic_color(p - 30)), pi)
      [] p \in 40..47 ->
            SgrResult(set_ground(style, "bg", basic_color(p - 40)), pi)
      [] p \in 90..97 ->
            SgrResult(set_ground(style, "fg", bright_color(p - 90)), pi)
      [] p \in 100..107 ->
            SgrResult(set_ground(style, "bg", bright_color(p - 100)), pi)
      [] p = 38 -> extended_color(params, pi, style, "fg")
      [] p = 48 -> extended_color(params, pi, style, "bg")
      [] p = 39 -> SgrResult(set_ground(style, "fg", Color("Reset")), pi)
      [] p = 49 -> SgrResult(set_ground(style, "bg", Color("Reset")), pi)
      [] OTHER -> SgrResult(style, pi)

\* the loop `while pi < params.len()`
RECURSIVE apply_sgr(_, _, _)
apply_sgr(params, pi, style) ==
    IF pi >= Len(params) THEN style
    ELSE LET r == sgr_param(params, pi, style)
         IN apply_sgr(params, r.pi + 1, r.style)

unwrap_or(num, default) == IF num.some THEN num.v ELSE default

\* what the scan of a parameter list returns
ScanResult(i, params, panicked) ==
    [i |-> i, params |-> params, panicked |-> panicked]

\* the loop that reads the parameters (i is 0-based as in the source).  The
\* u16 arithmetic `num * 10 + digit` panics on overflow in a build with
\* overflow checks and wraps in one without.
RECURSIVE scan_params(_, _, _, _)
scan_params(bytes, i, params, num) ==
    IF i >= Len(bytes) THEN ScanResult(i, params, FALSE)
    ELSE LET b == bytes[i + 1] IN
         IF b \in DIGIT_0..(DIGIT_0 + 9)
         THEN LET n == unwrap_or(num, 0) * 10 + (b - DIGIT_0) IN
              IF n >= U16 /\ overflow_checks
              THEN ScanResult(i, params, TRUE)
              ELSE scan_params(bytes, i + 1, params, Some(n % U16))
         ELSE IF b = SEMICOLON
         THEN scan_params(bytes, i + 1, Append(params, unwrap_or(num, 0)),
                          None)
         ELSE IF b = LOWER_M
         THEN ScanResult(i + 1, Append(params, unwrap_or(num, 0)), FALSE)
         ELSE ScanResult(i + 1, params, FALSE)

Span(text, style) == [text |-> text, style |-> style]

\* the push of a span when buf is not empty
flush(spans, buf, style) ==
    IF buf # <<>> THEN Append(spans, Span(buf, style)) ELSE spans

ParseResult(panicked, spans) ==
    [parsed |-> TRUE, panicked |-> panicked, spans |-> spans]

\* the loop `while i < len`
RECURSIVE parse_from(_, _, _, _, _)
parse_from(bytes, i, spans, current_style, buf) ==
    IF i >= Len(bytes)
    THEN ParseResult(FALSE, flush(spans, buf, current_style))
    ELSE IF bytes[i + 1] = ESC /\ i + 1 < Len(bytes)
            /\ bytes[i + 2] = LBRACKET
    THEN LET sc == scan_params(bytes, i + 2, <<>>, None) IN
         IF sc.panicked THEN ParseResult(TRUE, <<>>)
         ELSE parse_from(bytes, sc.i, flush(spans, buf, current_style),
                         apply_sgr(sc.params, 0, current_style), <<>>)
    ELSE parse_from(bytes, i + 1, spans, current_style,
                    Append(buf, bytes[i + 1]))

parse_ansi_line(input) == parse_from(input, 0, <<>>, Style_default, <<>>)

\* no line has been parsed
NotParsed == [parsed |-> FALSE, panicked |-> FALSE, spans |-> <<>>]

-----------------------------------------------------------------------------
(* preview.rs: render_markdown and render_inline.  A text is the sequence  *)
(* of its characters; the output holds the escape sequences as characters. *)

BACKTICK == 96
STAR == 42
RSQUARE == 93
LPAREN == 40
RPAREN == 41
BLANK == 32
TAB == 9
HASH == 35
DASH == 45
UNDERSCORE == 95
GREATER == 62
\* the characters U+2500, U+2022 and U+2502 of the divider, bullet and quote
BOX_HORIZONTAL == 9472
BULLET == 8226
BOX_VERTICAL == 9474

RESET == <<ESC, LBRACKET, 48, LOWER_M>>
BOLD == <<ESC, LBRACKET, 49, LOWER_M>>
DIM == <<ESC, LBRACKET, 50, LOWER_M>>
ITALIC == <<ESC, LBRACKET, 51, LOWER_M>>
CYAN == <<ESC, LBRACKET, 51, 54, LOWER_M>>
YELLOW == <<ESC, LBRACKET, 51, 51, LOWER_M>>
GREEN == <<ESC, LBRACKET, 51, 50, LOWER_M>>
MAGENTA == <<ESC, LBRACKET, 51, 53, LOWER_M>>
BLUE == <<ESC, LBRACKET, 51, 52, LOWER_M>>

\* chars[a..b], 0-based and without b
Slice(chars, a, b) == SubSeq(chars, a + 1, b)

\* &s[a..]
SliceFrom(chars, a) == SubSeq(chars, a + 1, Len(chars))

starts_with(s, prefix) ==
    Len(s) >= Len(prefix) /\ SubSeq(s, 1, Len(prefix)) = prefix

\* the least of a set of numbers, if any
First(S) == IF S = {} THEN None ELSE Some(CHOOSE i \in S : \A j \in S : i <= j)

find_closing(chars, start, target) ==
    First({ i \in start..(Len(chars) - 1) : chars[i + 1] = target })

find_double_closing(chars, start, target) ==
    First({ i \in start..(Len(chars) - 2) :
              chars[i + 1] = target /\ chars[i + 2] = target })

\* what one iteration of a loop gives: the output and the next position
Iter(out, i) == [out |-> out, i |-> i]

\* a character that is dropped where it should be pushed
push_char_dropped(chars, i) == Iter(<<>>, i + 1)

\* a push that leaves the position where it is
push_char_stuck(chars, i) == Iter(<<chars[i + 1]>>, i)

\* result.push(chars[i]); i += 1
push_char(chars, i) == Iter(<<chars[i + 1]>>, i + 1)

\* one iteration of the loop of render_inline, at i < len
inline_iter(chars, i) ==
    LET len == Len(chars)
        c == chars[i + 1]
        code_end == IF c = BACKTICK
                    THEN find_closing(chars, i + 1, BACKTICK) ELSE None
        bold_end == IF i + 1 < len /\ c = STAR /\ chars[i + 2] = STAR
                    THEN find_double_closing(chars, i + 2, STAR) ELSE None
        ital_end == IF c = STAR /\ i + 1 < len /\ chars[i + 2] # STAR
                    THEN find_closing(chars, i + 1, STAR) ELSE None
        bracket_end == IF c = LBRACKET
                       THEN find_closing(chars, i + 1, RSQUARE) ELSE None
        paren_end == IF /\ bracket_end.some
                        /\ bracket_end.v + 1 < len
                        /\ chars[bracket_end.v + 2] = LPAREN
                     THEN find_closing(chars, bracket_end.v + 2, RPAREN)
                     ELSE None
    IN IF code_end.some
       THEN Iter(DIM \o CYAN \o Slice(chars, i + 1, code_end.v) \o RESET,
                 code_end.v + 1)
       ELSE IF bold_end.some
       THEN Iter(BOLD \o Slice(chars, i + 2, bold_end.v) \o RESET,
                 bold_end.v + 2)
       ELSE IF ital_end.some
       THEN Iter(ITALIC \o Slice(chars, i + 1, ital_end.v) \o RESET,
                 ital_end.v + 1)
       ELSE IF paren_end.some
       THEN Iter(BLUE \o Slice(chars, i + 1, bracket_end.v) \o RESET,
                 paren_end.v + 1)
       ELSE push_char(chars, i)

\* the loop `while i < len` of render_inline
RECURSIVE inline_from(_, _)
inline_from(chars, i) ==
    IF i >= Len(chars) THEN <<>>
    ELSE LET r == inline_iter(chars, i) IN r.out \o inline_from(chars, r.i)

render_inline(text) == inline_from(text, 0)

is_whitespace(c) == c \in {BLANK, TAB}

RECURSIVE trim_start(_)
trim_start(s) ==
    IF s # <<>> /\ is_whitespace(s[1]) THEN trim_start(Tail(s)) ELSE s

RECURSIVE trim_end(_)
trim_end(s) ==
    IF s # <<>> /\ is_whitespace(s[Len(s)])
    THEN trim_end(SubSeq(s, 1, Len(s) - 1)) ELSE s

trim(s) == trim_end(trim_start(s))

RECURSIVE trim_start_matches(_, _)
trim_start_matches(s, c) ==
    IF s # <<>> /\ s[1] = c THEN trim_start_matches(Tail(s), c) ELSE s

\* str::lines: the pieces between the LF, without an empty last piece
RECURSIVE lines(_)
lines(s) ==
    IF s = <<>> THEN <<>>
    ELSE LET nl == First({ i \in 1..Len(s) : s[i] = LF }) IN
         IF nl.some
         THEN <<SubSeq(s, 1, nl.v - 1)>> \o lines(SubSeq(s, nl.v + 1, Len(s)))
         ELSE <<s>>

RECURSIVE repeat(_, _)
repeat(s, n) == IF n = 0 THEN <<>> ELSE s \o repeat(s, n - 1)

\* Some((indent_level, text)) written as a record
Stripped(indent_level, text) ==
    [some |-> TRUE, indent_level |-> indent_level, text |-> text]

strip_bullet_prefix(line) ==
    LET trimmed == trim_start(line)
        leading_spaces == Len(line) - Len(trimmed)
        indent_level == leading_spaces \div 2
    IN IF starts_with(trimmed, <<DASH, BLANK>>)
          \/ starts_with(trimmed, <<STAR, BLANK>>)
       THEN Stripped(indent_level, SliceFrom(trimmed, 2))
       ELSE None

is_ascii_digit(b) == b \in DIGIT_0..(DIGIT_0 + 9)

strip_numbered_prefix(line) ==
    LET trimmed == trim_start(line)
        leading_spaces == Len(line) - Len(trimmed)
        indent_level == leading_spaces \div 2
        nondigit == First({ k \in 0..(Len(trimmed) - 1) :
                              ~is_ascii_digit(trimmed[k + 1]) })
        i == IF nondigit.some THEN nondigit.v ELSE Len(trimmed)
    IN IF /\ i > 0 /\ i < Len(trimmed)
          /\ trimmed[i + 1] \in {DOT, RPAREN}
          /\ starts_with(SliceFrom(trimmed, i + 1), <<BLANK>>)
       THEN Stripped(indent_level, trim_start(SliceFrom(trimmed, i + 1)))
       ELSE None

FENCE == <<BACKTICK, BACKTICK, BACKTICK>>

\* the languages that the syntax set knows, of the ones in the model: "rs"
syntax_known(lang) == lang = <<114, 115>>

\* the divider of a horizontal rule
DIVIDER == DIM \o [i \in 1..32 |-> BOX_HORIZONTAL] \o RESET \o <<LF>>

\* the test of a horizontal rule with the test of the first characters
\* left out
is_rule_any_start(line) ==
    /\ \A k \in 1..Len(line) : line[k] \in {DASH, STAR, UNDERSCORE, BLANK}
    /\ Len(line) >= 3

\* the test of a horizontal rule
is_rule(line) ==
    /\ \/ starts_with(line, <<DASH, DASH, DASH>>)
       \/ starts_with(line, <<STAR, STAR, STAR>>)
       \/ starts_with(line, <<UNDERSCORE, UNDERSCORE, UNDERSCORE>>)
    /\ \A k \in 1..Len(line) : line[k] \in {DASH, STAR, UNDERSCORE, BLANK}
    /\ Len(line) >= 3

\* a fenced code block that opens at line k (0-based): the lines up to the
\* closing fence, or to the end
fenced_block(ls, k) ==
    LET lang == trim(trim_start_matches(ls[k + 1], BACKTICK))
        close == First({ j \in (k + 1)..(Len(ls) - 1) :
                           starts_with(ls[j + 1], FENCE) })
        stop == IF close.some THEN close.v ELSE Len(ls)
        code_lines == SubSeq(ls, k + 2, stop)
        body(pre, post) ==
            LET RECURSIVE each(_)
                each(cl) == IF cl = <<>> THEN <<>>
                            ELSE <<BLANK, BLANK>> \o pre \o Head(cl) \o post
                                 \o <<LF>> \o each(Tail(cl))
            IN each(code_lines)
    IN Iter((IF lang # <<>> /\ syntax_known(lang)
             \* the colours that the highlighter adds are left out; an empty
             \* block is the one line ""
             THEN (IF code_lines = <<>> THEN <<BLANK, BLANK, LF>>
                   ELSE body(<<>>, <<>>)) \o RESET
             ELSE body(DIM, RESET)) \o <<LF>>,
            IF close.some THEN close.v + 1 ELSE Len(ls))

\* one iteration of the loop of render_markdown, at line k (0-based)
markdown_iter(ls, k) ==
    LET line == ls[k + 1]
        bullet == strip_bullet_prefix(line)
        numbered == strip_numbered_prefix(line)
    IN IF starts_with(line, FENCE) THEN fenced_block(ls, k)
       ELSE IF starts_with(line, <<HASH, BLANK>>)
       THEN Iter(BOLD \o CYAN \o SliceFrom(line, 2) \o RESET \o <<LF>>, k + 1)
       ELSE IF starts_with(line, <<HASH, HASH, BLANK>>)
       THEN Iter(BOLD \o GREEN \o SliceFrom(line, 3) \o RESET \o <<LF>>, k + 1)
       ELSE IF starts_with(line, <<HASH, HASH, HASH, BLANK>>)
       THEN Iter(BOLD \o YELLOW \o SliceFrom(line, 4) \o RESET \o <<LF>>,
                 k + 1)
       ELSE IF \/ starts_with(line, <<HASH, HASH, HASH, HASH, BLANK>>)
               \/ starts_with(line, <<HASH, HASH, HASH, HASH, HASH, BLANK>>)
               \/ starts_with(line,
                              <<HASH, HASH, HASH, HASH, HASH, HASH, BLANK>>)
       THEN Iter(BOLD \o MAGENTA
                 \o trim_start(trim_start_matches(line, HASH))
                 \o RESET \o <<LF>>, k + 1)
       ELSE IF is_rule(line) THEN Iter(DIVIDER, k + 1)
       ELSE IF bullet.some
       THEN Iter(repeat(<<BLANK, BLANK>>, bullet.indent_level + 1)
                 \o BLUE \o <<BULLET>> \o RESET \o <<BLANK>>
                 \o render_inline(bullet.text) \o <<LF>>, k + 1)
       ELSE IF numbered.some
       THEN Iter(repeat(<<BLANK, BLANK>>, numbered.indent_level + 1)
                 \o render_inline(numbered.text) \o <<LF>>, k + 1)
       ELSE IF starts_with(line, <<GREATER, BLANK>>)
       THEN Iter(<<BLANK, BLANK>> \o DIM \o <<BOX_VERTICAL>> \o RESET
                 \o <<BLANK>> \o render_inline(SliceFrom(line, 2)) \o <<LF>>,
                 k + 1)
       ELSE Iter(render_inline(line) \o <<LF>>, k + 1)

\* the loop `while let Some(line) = lines.next()`
RECURSIVE markdown_from(_, _)
markdown_from(ls, k) ==
    IF k >= Len(ls) THEN <<>>
    ELSE LET r == markdown_iter(ls, k) IN r.out \o markdown_from(ls, r.i)

render_markdown(input) == markdown_from(lines(input), 0)

-----------------------------------------------------------------------------
(* app.rs: the application state and its commands.  A command is an        *)
(* operator from the App record before it to the App record after it; d    *)
(* and rev are the filesystem it reads.                                    *)

app ==
    [ tree |-> tree,
      expanded |-> expanded,
      visible_rows |-> visible_rows,
      selected_index |-> selected_index,
      show_hidden |-> show_hidden,
      preview_scroll |-> preview_scroll,
      preview_cache |-> preview_cache,
      last_preview_path |-> last_preview_path ]

\* usize::saturating_sub
saturating_sub(a, b) == IF a >= b THEN a - b ELSE 0

Min(a, b) == IF a <= b THEN a ELSE b

\* self.visible_rows.get(i)
row_at(a, i) ==
    IF i < Len(a.visible_rows) THEN Some(a.visible_rows[i + 1]) ELSE None

\* an update_preview that renders again whatever path is selected
update_preview_always(d, rev, a) ==
    LET r == row_at(a, a.selected_index)
        current_path == IF r.some THEN Some(r.v.path) ELSE None
    IN [a EXCEPT
          !.last_preview_path = current_path,
          !.preview_cache =
              IF current_path.some THEN preview(d, rev, current_path.v)
              ELSE [content |-> [kind |-> "Empty"], total_lines |-> 0]]

update_preview(d, rev, a) ==
    LET r == row_at(a, a.selected_index)
        current_path == IF r.some THEN Some(r.v.path) ELSE None
    IN IF current_path # a.last_preview_path
       THEN [a EXCEPT
               !.last_preview_path = current_path,
               !.preview_cache =
                   IF current_path.some THEN preview(d, rev, current_path.v)
                   ELSE [content |-> [kind |-> "Empty"], total_lines |-> 0]]
       ELSE a

\* a refresh that flattens the root level it read last time
refresh_tree_cached(d, rev, a) == a.tree

\* the nodes refresh flattens: the root level, read from disk
refresh_tree(d, rev, a) == build_tree(d, rev, root_path)

\* a refresh that leaves the selection where it is, whatever the new rows
refresh_finish_unclamped(d, rev, a, nodes, rows) ==
    update_preview(d, rev, [a EXCEPT !.tree = nodes, !.visible_rows = rows])

\* refresh, after flatten_tree has returned these nodes and rows
refresh_finish(d, rev, a, nodes, rows) ==
    LET n == Len(rows)
        sel == IF n = 0 THEN 0
               ELSE IF a.selected_index >= n THEN n - 1
               ELSE a.selected_index
    IN update_preview(d, rev,
          [a EXCEPT !.tree = nodes, !.visible_rows = rows,
                    !.selected_index = sel])

refresh(d, rev, a) ==
    LET f == flatten_tree(d, rev, refresh_tree(d, rev, a), a.expanded,
                          a.show_hidden)
    IN refresh_finish(d, rev, a, f.nodes, f.rows)

\* App::new, from the expanded set and hidden flag given: the source starts
\* from the empty set and FALSE
app_with(d, rev, exp, hid) ==
    refresh(d, rev,
        [ tree |-> build_tree(d, rev, root_path),
          expanded |-> exp,
          visible_rows |-> <<>>,
          selected_index |-> 0,
          show_hidden |-> hid,
          preview_scroll |-> 0,
          preview_cache |-> [content |-> [kind |-> "Empty"], total_lines |-> 0],
          last_preview_path |-> None ])

new_app(d, rev) == app_with(d, rev, {}, FALSE)

\* a move_down that ends in refresh instead of update_preview
move_down_refresh(d, rev, a) ==
    IF a.selected_index < saturating_sub(Len(a.visible_rows), 1)
    THEN refresh(d, rev,
            [a EXCEPT !.selected_index = a.selected_index + 1,
                      !.preview_scroll = 0])
    ELSE a

move_down(d, rev, a) ==
    IF a.selected_index < saturating_sub(Len(a.visible_rows), 1)
    THEN update_preview(d, rev,
            [a EXCEPT !.selected_index = a.selected_index + 1,
                      !.preview_scroll = 0])
    ELSE a

\* a move_up that leaves the preview as it is
move_up_no_preview(d, rev, a) ==
    IF a.selected_index > 0
    THEN [a EXCEPT !.selected_index = a.selected_index - 1,
                   !.preview_scroll = 0]
    ELSE a

move_up(d, rev, a) ==
    IF a.selected_index > 0
    THEN update_preview(d, rev,
            [a EXCEPT !.selected_index = a.selected_index - 1,
                      !.preview_scroll = 0])
    ELSE a

jump_top(d, rev, a) ==
    update_preview(d, rev,
        [a EXCEPT !.selected_index = 0, !.preview_scroll = 0])

jump_bottom(d, rev, a) ==
    update_preview(d, rev,
        [a EXCEPT !.selected_index = saturating_sub(Len(a.visible_rows), 1),
                  !.preview_scroll = 0])

\* a toggle_expand that also moves the selection to the top, as toggle_hidden
\* does
toggle_expand_pre_top(a) ==
    LET r == row_at(a, a.selected_index) IN
    IF ~r.some THEN [go |-> FALSE, a |-> a]
    ELSE IF ~r.v.is_directory THEN [go |-> FALSE, a |-> a]
    ELSE [go |-> TRUE,
          a |-> [a EXCEPT
                   !.expanded = IF r.v.path \in a.expanded
                                THEN a.expanded \ {r.v.path}
                                ELSE a.expanded \cup {r.v.path},
                   !.selected_index = 0,
                   !.preview_scroll = 0]]

\* toggle_expand up to its call of refresh: whether it gets there, and the
\* App it calls refresh on
toggle_expand_pre(a) ==
    LET r == row_at(a, a.selected_index) IN
    IF ~r.some THEN [go |-> FALSE, a |-> a]
    ELSE IF ~r.v.is_directory THEN [go |-> FALSE, a |-> a]
    ELSE [go |-> TRUE,
          a |-> [a EXCEPT
                   !.expanded = IF r.v.path \in a.expanded
                                THEN a.expanded \ {r.v.path}
                                ELSE a.expanded \cup {r.v.path},
                   !.preview_scroll = 0]]

toggle_expand(d, rev, a) ==
    LET pre == toggle_expand_pre(a) IN
    IF pre.go THEN refresh(d, rev, pre.a) ELSE a

\* a collapse_or_parent that does not flatten again after it has changed
\* the expanded set
collapse_or_parent_no_refresh(d, rev, a) ==
    LET r == row_at(a, a.selected_index) IN
    IF ~r.some THEN a
    ELSE IF r.v.is_expanded
    THEN update_preview(d, rev,
            [a EXCEPT !.expanded = a.expanded \ {r.v.path},
                      !.preview_scroll = 0])
    ELSE LET parent_idx == find_parent_row(a.visible_rows, a.selected_index)
         IN IF parent_idx # a.selected_index
            THEN update_preview(d, rev,
                    [a EXCEPT !.selected_index = parent_idx,
                              !.preview_scroll = 0])
            ELSE a

\* a collapse_or_parent that also forgets what is expanded below the row
collapse_or_parent_subtree(d, rev, a) ==
    LET r == row_at(a, a.selected_index) IN
    IF ~r.some THEN a
    ELSE IF r.v.is_expanded
    THEN refresh(d, rev,
            [a EXCEPT !.expanded = { q \in a.expanded :
                                       ~IsPrefix(r.v.path, q) },
                      !.preview_scroll = 0])
    ELSE LET parent_idx == find_parent_row(a.visible_rows, a.selected_index)
         IN IF parent_idx # a.selected_index
            THEN update_preview(d, rev,
                    [a EXCEPT !.selected_index = parent_idx,
                              !.preview_scroll = 0])
            ELSE a

collapse_or_parent(d, rev, a) ==
    LET r == row_at(a, a.selected_index) IN
    IF ~r.some THEN a
    ELSE IF r.v.is_expanded
    THEN refresh(d, rev,
            [a EXCEPT !.expanded = a.expanded \ {r.v.path},
                      !.preview_scroll = 0])
    ELSE LET parent_idx == find_parent_row(a.visible_rows, a.selected_index)
         IN IF parent_idx # a.selected_index
            THEN update_preview(d, rev,
                    [a EXCEPT !.selected_index = parent_idx,
                              !.preview_scroll = 0])
            ELSE a

toggle_hidden(d, rev, a) ==
    refresh(d, rev,
        [a EXCEPT !.show_hidden = ~a.show_hidden,
                  !.selected_index = 0,
                  !.preview_scroll = 0])

scroll_preview_down(a, amount) ==
    [a EXCEPT !.preview_scroll = a.preview_scroll + amount]

scroll_preview_up(a, amount) ==
    [a EXCEPT !.preview_scroll = saturating_sub(a.preview_scroll, amount)]

-----------------------------------------------------------------------------
(* The viewport windowing of the tree panel: ui.rs draws with it, app.rs   *)
(* hit-tests a click with it.                                              *)

\* a draw_tree that does not clamp the offset to the end of the list
draw_scroll_offset_unclamped(a, area_height) ==
    LET list_height == saturating_sub(area_height, 1) IN
    IF Len(a.visible_rows) > list_height
    THEN saturating_sub(a.selected_index, list_height \div 2)
    ELSE 0

\* draw_tree: the scroll offset
draw_scroll_offset(a, area_height) ==
    LET list_height == saturating_sub(area_height, 1) IN
    IF Len(a.visible_rows) > list_height
    THEN Min(saturating_sub(a.selected_index, list_height \div 2),
             saturating_sub(Len(a.visible_rows), list_height))
    ELSE 0

\* draw_tree: one past the last row drawn
draw_visible_end(a, area_height) ==
    LET list_height == saturating_sub(area_height, 1)
        entries_to_show == saturating_sub(list_height, 2)
    IN Min(draw_scroll_offset(a, area_height) + entries_to_show,
           Len(a.visible_rows))

\* draw_tree: the row drawn on screen line y (line 0 is the header, line 1
\* the separator, the rows scroll_offset..visible_end follow)
drawn_row_at(a, y, area_height) ==
    LET i == draw_scroll_offset(a, area_height) + (y - 2) IN
    IF y >= 2 /\ i < draw_visible_end(a, area_height) THEN Some(i) ELSE None

\* a click_tree that windows with the number of entry lines
click_scroll_offset_entries(a, area_height) ==
    LET list_height == saturating_sub(area_height, 1)
        entries_height == saturating_sub(list_height, 2)
    IN IF Len(a.visible_rows) > entries_height
       THEN Min(saturating_sub(a.selected_index, entries_height \div 2),
                saturating_sub(Len(a.visible_rows), entries_height))
       ELSE 0

\* click_tree: the scroll offset
click_scroll_offset(a, area_height) ==
    LET list_height == saturating_sub(area_height, 1) IN
    IF Len(a.visible_rows) > list_height
    THEN Min(saturating_sub(a.selected_index, list_height \div 2),
             saturating_sub(Len(a.visible_rows), list_height))
    ELSE 0

\* click_tree: the row a click on screen line y lands on, if any
click_row_idx(a, y, area_height) ==
    LET list_height == saturating_sub(area_height, 1)
        entries_height == saturating_sub(list_height, 2)
        entry_idx == y - 2
        row_idx == click_scroll_offset(a, area_height) + entry_idx
    IN IF y < 2 THEN None
       ELSE IF entry_idx >= entries_height THEN None
       ELSE IF row_idx >= Len(a.visible_rows) THEN None
       ELSE Some(row_idx)

click_tree(d, rev, a, y, area_height) ==
    LET hit == click_row_idx(a, y, area_height) IN
    IF ~hit.some THEN a
    ELSE LET a1 == update_preview(d, rev,
                      [a EXCEPT !.selected_index = hit.v,
                                !.preview_scroll = 0])
         IN IF a1.visible_rows[hit.v + 1].is_directory
            THEN toggle_expand(d, rev, a1)
            ELSE a1

-----------------------------------------------------------------------------
(* The state machine: the commands main.rs dispatches, and the changes     *)
(* other processes make to the filesystem between two commands.            *)

Heights == 0..MaxHeight
ClickYs == 0..MaxClickY

SetAppVars(a) ==
    /\ tree' = a.tree
    /\ expanded' = a.expanded
    /\ visible_rows' = a.visible_rows
    /\ selected_index' = a.selected_index
    /\ show_hidden' = a.show_hidden
    /\ preview_scroll' = a.preview_scroll
    /\ preview_cache' = a.preview_cache
    /\ last_preview_path' = a.last_preview_path

SetApp(a) ==
    SetAppVars(a)
    /\ UNCHANGED <<disk, enum_rev, fs_changes, files, fl, fl_steps, ansiVars, mdVars,
                   startVars>>

SetInitApp(a) ==
    /\ tree = a.tree
    /\ expanded = a.expanded
    /\ visible_rows = a.visible_rows
    /\ selected_index = a.selected_index
    /\ show_hidden = a.show_hidden
    /\ preview_scroll = a.preview_scroll
    /\ preview_cache = a.preview_cache
    /\ last_preview_path = a.last_preview_path
    /\ fs_changes = 0
    /\ fl = FlIdle
    /\ fl_steps = 0

\* no line is parsed
AnsiIdle ==
    /\ ansi_src = <<>>
    /\ ansi_line = NotParsed
    /\ overflow_checks = FALSE

\* no markdown is rendered
MdIdle ==
    /\ md_src = <<>>
    /\ md_out = None

\* the program was started on root_path
StartIdle ==
    /\ argv1 = None
    /\ cwd = root_path
    /\ started_root = Some(root_path)

SetInit(a) ==
    /\ SetInitApp(a)
    /\ AnsiIdle
    /\ MdIdle
    /\ StartIdle

appVars == <<tree, expanded, visible_rows, selected_index, show_hidden,
             preview_scroll, preview_cache, last_preview_path>>

\* the directory trees the program is started on: the whole universe, the
\* universe short of a file at the root and a hidden file in a directory,
\* and a single empty directory
InitDisks ==
    { Universe, Universe \ {<<NmA, NmHidG>>, <<NmB>>}, {<<NmA>>} }

Init ==
    /\ disk \in InitDisks
    /\ enum_rev = FALSE
    /\ files = NoFiles
    /\ SetInit(new_app(disk, enum_rev))

MoveDown == SetApp(move_down(disk, enum_rev, app))
MoveUp == SetApp(move_up(disk, enum_rev, app))
JumpTop == SetApp(jump_top(disk, enum_rev, app))
JumpBottom == SetApp(jump_bottom(disk, enum_rev, app))
ToggleExpand == SetApp(toggle_expand(disk, enum_rev, app))
CollapseOrParent ==
    SetApp(collapse_or_parent(disk, enum_rev, app))
ToggleHidden == SetApp(toggle_hidden(disk, enum_rev, app))
ClickTree ==
    \E y \in ClickYs, h \in Heights :
        SetApp(click_tree(disk, enum_rev, app, y, h))

FsStep ==
    /\ fs_changes < MaxFsChanges
    /\ fs_changes' = fs_changes + 1

\* another process creates an entry
FsCreate ==
    \E p \in Universe \ disk :
        /\ Len(p) = 1 \/ Parent(p) \in disk
        /\ disk' = disk \cup {p}
        /\ FsStep
        /\ UNCHANGED <<enum_rev, appVars, files, fl, fl_steps, ansiVars, mdVars,
                   startVars>>

\* another process deletes an entry, and with a directory what it holds
FsDelete ==
    \E p \in disk :
        /\ disk' = {q \in disk : ~IsPrefix(p, q)}
        /\ FsStep
        /\ UNCHANGED <<enum_rev, appVars, files, fl, fl_steps, ansiVars, mdVars,
                   startVars>>

Next ==
    \/ MoveDown \/ MoveUp \/ JumpTop \/ JumpBottom
    \/ ToggleExpand \/ CollapseOrParent \/ ToggleHidden \/ ClickTree
    \/ FsCreate \/ FsDelete

Spec == Init /\ [][Next]_vars

-----------------------------------------------------------------------------
(* SpecSort: one directory level holding names equal up to case, on a      *)
(* filesystem that may enumerate it in either order.                       *)

SortUniverse == { <<NmA>>, <<NmC>>, <<NmB>>, <<NmUB>>, <<NmY>>, <<NmHidH>> }

\* the filesystem changes the order its directories enumerate in
FsReorder ==
    /\ enum_rev' = ~enum_rev
    /\ FsStep
    /\ UNCHANGED <<disk, appVars, files, fl, fl_steps, ansiVars, mdVars,
                   startVars>>

InitSort ==
    /\ disk \in SUBSET SortUniverse
    /\ enum_rev \in BOOLEAN
    /\ files = NoFiles
    /\ SetInit(new_app(disk, enum_rev))

NextSort ==
    \/ MoveDown \/ MoveUp \/ ToggleExpand \/ ToggleHidden \/ FsReorder

SpecSort == InitSort /\ [][NextSort]_vars

-----------------------------------------------------------------------------
(* SpecWindow: a flat directory of up to MaxFiles files, for the windowing *)
(* of a list longer than the terminal is tall.                             *)

FlatDisk(n) == { <<(<<109 + i>>)>> : i \in 1..n }

WinClickTree ==
    \E y \in 0..MaxWinClickY, h \in 0..MaxWinHeight :
        SetApp(click_tree(disk, enum_rev, app, y, h))

InitWindow ==
    /\ disk \in { FlatDisk(n) : n \in 0..MaxFiles }
    /\ enum_rev = FALSE
    /\ files = NoFiles
    /\ SetInit(new_app(disk, enum_rev))

NextWindow ==
    \/ MoveDown \/ MoveUp \/ JumpTop \/ JumpBottom \/ WinClickTree

SpecWindow == InitWindow /\ [][NextWindow]_vars

-----------------------------------------------------------------------------
(* SpecDeep: a directory d holding a symbolic link l to the directory      *)
(* above it, so that d, d/l, d/l/d, ... are all directories, and a chain   *)
(* of them expanded.                                                       *)

DeepDisk == { <<NmD>>, <<NmD, NmL>> }

\* d/l/d/l/... of k names
ChainPath(k) == [i \in 1..k |-> IF i % 2 = 1 THEN NmD ELSE NmL]

Chain(k) == { ChainPath(j) : j \in 1..k }

FlActive == Len(fl.stack) > 0

InitDeep ==
    /\ disk = DeepDisk
    /\ enum_rev = FALSE
    /\ files = NoFiles
    /\ SetInit(new_app(disk, enum_rev))

\* toggle_expand, as far as its call of flatten_tree
DeepToggleExpand ==
    LET pre == toggle_expand_pre(app) IN
    /\ ~FlActive
    /\ pre.go
    /\ Cardinality(pre.a.expanded) <= MaxChain
    /\ expanded' = pre.a.expanded
    /\ preview_scroll' = pre.a.preview_scroll
    /\ tree' = refresh_tree(disk, enum_rev, pre.a)
    /\ fl' = fl_start(tree')
    /\ fl_steps' = 0
    /\ UNCHANGED <<disk, enum_rev, fs_changes, files, visible_rows,
                   selected_index,
                   show_hidden, preview_cache, last_preview_path, ansiVars, mdVars,
                   startVars>>

\* one loop iteration of flatten_recursive; when flatten_tree returns,
\* refresh finishes
DeepFlattenStep ==
    /\ FlActive
    /\ fl_steps' = fl_steps + 1
    /\ LET f == fl_step(disk, enum_rev, expanded, show_hidden, fl) IN
       IF Len(f.stack) > 0
       THEN /\ fl' = f
            /\ UNCHANGED <<disk, enum_rev, fs_changes, files, appVars,
                           ansiVars, mdVars,
                   startVars>>
       ELSE /\ SetAppVars(refresh_finish(disk, enum_rev, app, f.ret, f.rows))
            /\ fl' = FlIdle
            /\ UNCHANGED <<disk, enum_rev, fs_changes, files, ansiVars, mdVars,
                   startVars>>

DeepJumpBottom == ~FlActive /\ JumpBottom

NextDeep ==
    \/ DeepToggleExpand \/ DeepFlattenStep \/ DeepJumpBottom

\* a flatten that has started keeps running: its next iteration is taken
FlattenRuns == FlActive /\ fl_steps' = fl_steps + 1

SpecDeep == InitDeep /\ [][NextDeep]_vars /\ WF_fl_steps(FlattenRuns)

-----------------------------------------------------------------------------
(* The preview commands, on a directory of files of each kind: a           *)
(* directory and a file with a binary extension, a markdown file and a     *)
(* file without extension.  Other processes write, create and delete.      *)

PvUniverse ==
    { <<NmDirO>>, <<NmDirO, NmY>>, <<NmXO>>, <<NmT>>, <<NmMd>> }

PvFiles == { <<NmXO>>, <<NmT>>, <<NmMd>> }

\* the amounts main.rs scrolls the preview by: a line, three lines for the
\* mouse wheel, half the terminal height
ScrollAmounts == {1, 3} \cup { h \div 2 : h \in Heights }

ScrollPreviewDown ==
    \E amount \in ScrollAmounts :
        /\ preview_scroll + amount <= MaxScroll
        /\ SetApp(scroll_preview_down(app, amount))

ScrollPreviewUp ==
    \E amount \in ScrollAmounts : SetApp(scroll_preview_up(app, amount))

\* what the files hold to start with, and what another process writes
PvContents ==
    { [utf8 |-> TRUE, runs |-> <<>>],
      [utf8 |-> TRUE, runs |-> <<Run(ChX, 1), Run(LF, 1), Run(ChX, 1)>>],
      [utf8 |-> FALSE, runs |-> <<Run(ChX, 1)>>] }

\* another process writes a file
PvWrite ==
    \E p \in PvFiles \cap disk, c \in PvContents :
        /\ files[p] # c
        /\ files' = [files EXCEPT ![p] = c]
        /\ FsStep
        /\ UNCHANGED <<disk, enum_rev, appVars, fl, fl_steps, ansiVars, mdVars,
                   startVars>>

\* another process creates an entry
PvCreate ==
    \E p \in PvUniverse \ disk :
        /\ Len(p) = 1 \/ Parent(p) \in disk
        /\ disk' = disk \cup {p}
        /\ FsStep
        /\ UNCHANGED <<enum_rev, appVars, files, fl, fl_steps, ansiVars, mdVars,
                   startVars>>

InitPreview ==
    /\ disk \in { PvUniverse, PvUniverse \ {<<NmDirO, NmY>>} }
    /\ enum_rev = FALSE
    /\ files \in { [p \in PvFiles |-> c] : c \in PvContents }
    /\ SetInit(new_app(disk, enum_rev))

NextPreview ==
    \/ MoveDown \/ MoveUp \/ JumpTop \/ JumpBottom
    \/ ToggleExpand \/ ToggleHidden
    \/ ScrollPreviewDown \/ ScrollPreviewUp
    \/ PvWrite \/ PvCreate \/ FsDelete

SpecPreview == InitPreview /\ [][NextPreview]_vars

-----------------------------------------------------------------------------
(* SpecSelect: every command of main.rs, the preview scroll among them, on *)
(* a directory with a directory in it and a file beside it, while other    *)
(* processes create and delete entries.                                    *)

InitSelect ==
    /\ disk = { <<NmA>>, <<NmA, NmC>>, <<NmA, NmC, NmY>>, <<NmB>> }
    /\ enum_rev = FALSE
    /\ files = NoFiles
    /\ SetInit(new_app(disk, enum_rev))

NextSelect ==
    \/ MoveDown \/ MoveUp \/ JumpTop \/ JumpBottom
    \/ ToggleExpand \/ CollapseOrParent \/ ToggleHidden \/ ClickTree
    \/ ScrollPreviewDown \/ ScrollPreviewUp
    \/ FsCreate \/ FsDelete

SpecSelect == InitSelect /\ [][NextSelect]_vars

-----------------------------------------------------------------------------
(* SpecClassify: the files the tree lists hold any content of a family     *)
(* around the two ceilings of preview (bytes and lines), readable as UTF-8 *)
(* or not; the user walks the tree while entries are deleted.              *)

\* run lengths around MAX_PREVIEW_LINES and MAX_PREVIEW_BYTES
RunLengths ==
    { 1, MAX_PREVIEW_LINES, MAX_PREVIEW_LINES + 1,
      MAX_PREVIEW_BYTES - 1, MAX_PREVIEW_BYTES }

\* runs of the bytes 'x' and LF, neighbours differing
RunSeqs ==
    { r \in UNION { [1..k -> [b : {ChX, LF}, n : RunLengths]] : k \in 0..MaxRuns } :
        \A i \in 1..(Len(r) - 1) : r[i].b # r[i + 1].b }

ClassifyContents == [utf8 : BOOLEAN, runs : RunSeqs]

InitClassify ==
    /\ disk = PvUniverse
    /\ enum_rev = FALSE
    /\ files \in { [p \in PvFiles |-> c] : c \in ClassifyContents }
    /\ SetInit(new_app(disk, enum_rev))

NextClassify ==
    \/ MoveDown \/ MoveUp \/ JumpTop \/ JumpBottom
    \/ ToggleExpand \/ FsDelete

SpecClassify == InitClassify /\ [][NextClassify]_vars

-----------------------------------------------------------------------------
(* SpecAnsi: a line of preview text is handed to parse_ansi_line.  The     *)
(* line is put together from texts and CSI sequences: a start that sets a  *)
(* style, the sequence under test, a text, and an end.  The build is with  *)
(* or without overflow checks.                                             *)

CH_E == 69
CH_R == 82
CH_X == 88
CH_H == 72
SPACE == 32

\* a piece of a line: a text, or ESC [ params term; a parameter of -1 has
\* no digits, and a term of 0 is a sequence that the end of the line cuts off
TextPiece(bytes) ==
    [kind |-> "text", bytes |-> bytes, params |-> <<>>, term |-> 0]
Csi(params, term) ==
    [kind |-> "csi", bytes |-> <<>>, params |-> params, term |-> term]

RECURSIVE Digits(_)
Digits(n) ==
    IF n < 10 THEN <<DIGIT_0 + n>>
    ELSE Digits(n \div 10) \o <<DIGIT_0 + (n % 10)>>

RECURSIVE EncodeParams(_)
EncodeParams(params) ==
    IF params = <<>> THEN <<>>
    ELSE (IF Head(params) < 0 THEN <<>> ELSE Digits(Head(params)))
         \o (IF Len(params) > 1 THEN <<SEMICOLON>> ELSE <<>>)
         \o EncodeParams(Tail(params))

EncodePiece(p) ==
    IF p.kind = "text" THEN p.bytes
    ELSE <<ESC, LBRACKET>> \o EncodeParams(p.params)
         \o (IF p.term = 0 THEN <<>> ELSE <<p.term>>)

\* the bytes of a line
RECURSIVE Encode(_)
Encode(src) ==
    IF src = <<>> THEN <<>> ELSE EncodePiece(Head(src)) \o Encode(Tail(src))

ERR == <<CH_E, CH_R, CH_R>>

\* every modifier, red on green
AllSet == <<1, 2, 3, 4, 7, 9, 31, 42>>

SetUps ==
    { <<>>,
      <<Csi(AllSet, LOWER_M)>>,
      <<TextPiece(ERR), Csi(AllSet, LOWER_M)>> }

\* codes of the table, codes outside it, and codes that do not fit a u16
TableCodes ==
    { 0, 1, 2, 3, 4, 7, 9, 22, 23, 24, 27, 30, 31, 37, 39, 40, 42, 47, 49,
      90, 91, 97, 100, 104, 107 }
OtherCodes == { 5, 6, 8, 21, 29, 50, 89, 98, 108, 300, U16 - 1 }
WideCodes == { U16, U16 + 1, 99999 }

IndexValues == { 0, 1, 5, 200, U8 - 1, U8, 300 }
RgbValues ==
    { <<10, 20, 30>>, <<0, 0, 0>>, <<U8 - 1, U8 - 1, U8 - 1>>, <<1, 4, 7>>,
      <<5, 2, 38>>, <<300, U8, 511>> }

\* what follows a 38 or 48 that is cut short, or has no known mode
CutShort ==
    { <<>>, <<5>>, <<2>>, <<2, 1>>, <<2, 1, 7>>, <<2, 31, 42>>, <<6>>, <<7>> }

Heads ==
    { <<c>> : c \in TableCodes \cup OtherCodes \cup WideCodes }
    \cup { <<>>, <<1, -1>>, <<1, 31>> }
    \cup { <<g, 5, n>> : g \in {38, 48}, n \in IndexValues }
    \cup { <<g, 2>> \o rgb : g \in {38, 48}, rgb \in RgbValues }
    \cup { <<g>> \o c : g \in {38, 48}, c \in CutShort }

TailCodes == { 4, 49 }
TailLists == UNION { [1..k -> TailCodes] : k \in 0..MaxTail }
ParamLists == { h \o tl : h \in Heads, tl \in TailLists }

Terminators == { LOWER_M, CH_H, ESC }

UnderTest ==
    { <<>> } \cup { <<Csi(pl, t)>> : pl \in ParamLists, t \in Terminators }

\* the UTF-8 bytes of a character (a code point below 65536)
Utf8(cp) ==
    IF cp < 128 THEN <<cp>>
    ELSE IF cp < 2048 THEN <<192 + (cp \div 64), 128 + (cp % 64)>>
    ELSE <<224 + (cp \div 4096), 128 + ((cp \div 64) % 64), 128 + (cp % 64)>>

\* U+00E9, a character of two bytes
E_ACUTE == 233

Texts == { <<>>, <<TextPiece(ERR)>>, <<TextPiece(Utf8(E_ACUTE))>> }

Ends ==
    { <<>>,
      <<Csi(<<0>>, LOWER_M)>>,
      <<Csi(<<0>>, LOWER_M), TextPiece(<<CH_X>>)>>,
      <<Csi(<<3>>, LOWER_M), TextPiece(<<CH_X>>)>>,
      <<Csi(<<1>>, 0)>> }

AnsiLines ==
    { a \o s \o t \o z :
        a \in SetUps, s \in UnderTest, t \in Texts, z \in Ends }

InitAnsi ==
    /\ disk = {<<NmA>>}
    /\ enum_rev = FALSE
    /\ files = NoFiles
    /\ SetInitApp(new_app(disk, enum_rev))
    /\ ansi_src \in AnsiLines
    /\ ansi_line = NotParsed
    /\ overflow_checks \in BOOLEAN
    /\ MdIdle
    /\ StartIdle

\* draw_preview: the line is parsed
ParseAnsiLine ==
    /\ ~ansi_line.parsed
    /\ ansi_line' = parse_ansi_line(Encode(ansi_src))
    /\ UNCHANGED <<disk, enum_rev, fs_changes, files, appVars, fl, fl_steps,
                   ansi_src, overflow_checks, mdVars, startVars>>

NextAnsi == ParseAnsiLine

SpecAnsi == InitAnsi /\ [][NextAnsi]_vars

-----------------------------------------------------------------------------
(* SpecMarkdown: a markdown text is rendered.  The text is one line put    *)
(* together from delimiters and letters, which render_inline or            *)
(* render_markdown renders, or a document of a few lines, which            *)
(* render_markdown renders; or it is a line with escape sequences that     *)
(* parse_ansi_line parses.                                                 *)

CH_a == 97
CH_c == 99
CH_u == 117

\* the sequences of at most n elements of S
SeqsUpTo(S, n) == UNION { [1..k -> S] : k \in 0..n }

RECURSIVE Flatten(_)
Flatten(ss) == IF ss = <<>> THEN <<>> ELSE Head(ss) \o Flatten(Tail(ss))

RECURSIVE JoinLines(_)
JoinLines(ls) ==
    IF ls = <<>> THEN <<>>
    ELSE IF Len(ls) = 1 THEN ls[1]
    ELSE ls[1] \o <<LF>> \o JoinLines(Tail(ls))

InlinePieces ==
    { <<STAR, STAR>>, <<STAR>>, <<BACKTICK>>, <<LBRACKET>>,
      <<LBRACKET, CH_a>>,
      <<RSQUARE, LPAREN, CH_u>>, <<RPAREN>>, <<CH_a>>, <<BLANK>> }

\* what is around the pieces: nothing, or a bold span "**a " ... " c**"
Wraps ==
    { <<<<>>, <<>>>>,
      << <<STAR, STAR, CH_a, BLANK>>, <<BLANK, CH_c, STAR, STAR>> >> }

InlineTexts ==
    { w[1] \o Flatten(mid) \o w[2] :
        w \in Wraps, mid \in SeqsUpTo(InlinePieces, MaxPieces) }

DocLines ==
    { <<>>, <<CH_a>>, FENCE, FENCE \o <<114, 115>>,
      <<HASH, BLANK, CH_a>>,
      <<DASH, DASH, DASH>>, <<STAR, STAR, STAR>>,
      <<UNDERSCORE, UNDERSCORE, UNDERSCORE>>,
      <<DASH, BLANK, DASH, BLANK, DASH>>, <<STAR, BLANK, STAR, BLANK, STAR>>,
      <<UNDERSCORE, BLANK, UNDERSCORE, BLANK, UNDERSCORE>>,
      <<DASH, BLANK, CH_a>>, <<DIGIT_0 + 1, DOT, BLANK, CH_a>>,
      <<GREATER, BLANK, CH_a>> }

Docs == { JoinLines(ls) : ls \in SeqsUpTo(DocLines, MaxLines) }

\* lines with whole, cut off and malformed sequences
ScanLines ==
    { a \o s \o z :
        a \in { <<>>, <<TextPiece(ERR)>> },
        s \in { <<Csi(pl, t)>> :
                  pl \in { <<>>, <<1>>, <<1, -1>>, <<38, 5>>, <<38, 2, 1>> },
                  t \in Terminators \cup {0} },
        z \in { <<>>, <<TextPiece(<<ESC>>)>>, <<TextPiece(<<ESC, CH_X>>)>> } }

InitMarkdown ==
    /\ disk = {<<NmA>>}
    /\ enum_rev = FALSE
    /\ files = NoFiles
    /\ SetInitApp(new_app(disk, enum_rev))
    /\ StartIdle
    /\ overflow_checks = FALSE
    /\ ansi_line = NotParsed
    /\ md_out = None
    /\ \/ md_src \in InlineTexts \cup Docs /\ ansi_src = <<>>
       \/ md_src = <<>> /\ ansi_src \in ScanLines

\* what a rendering returns, and which function it was
Rendered(by, out) == [some |-> TRUE, by |-> by, out |-> out]

RenderInline ==
    /\ md_out = None
    /\ ansi_src = <<>>
    /\ LF \notin { md_src[k] : k \in 1..Len(md_src) }
    /\ md_out' = Rendered("render_inline", render_inline(md_src))
    /\ UNCHANGED <<disk, enum_rev, fs_changes, files, appVars, fl, fl_steps,
                   ansiVars, md_src, startVars>>

RenderMarkdown ==
    /\ md_out = None
    /\ ansi_src = <<>>
    /\ md_out' = Rendered("render_markdown", render_markdown(md_src))
    /\ UNCHANGED <<disk, enum_rev, fs_changes, files, appVars, fl, fl_steps,
                   ansiVars, md_src, startVars>>

ScanAnsiLine == ansi_src # <<>> /\ ParseAnsiLine

NextMarkdown == RenderInline \/ RenderMarkdown \/ ScanAnsiLine

SpecMarkdown == InitMarkdown /\ [][NextMarkdown]_vars

-----------------------------------------------------------------------------
(* SpecStart: main.rs, the start of the program.  The command line has a   *)
(* path argument or none; a path is absolute, or relative to the current   *)
(* directory, and is written as the names from the root of the filesystem. *)

\* PathBuf::from(p): whether the path is absolute, and its components
PathBuf(is_absolute, components) ==
    [is_absolute |-> is_absolute, components |-> components]

\* the first root_path of main: the argument made absolute, or the current
\* directory
absolute_path(arg, current_dir) ==
    IF arg.some
    THEN (IF arg.v.is_absolute THEN arg.v.components
          ELSE current_dir \o arg.v.components)
    ELSE current_dir

\* root_path.canonicalize().unwrap_or(root_path)
canonicalize_or(d, path) ==
    IF canonical(d, path).ok THEN canonical(d, path).path ELSE path

\* the root_path that main hands to App::new
main_root_path(d, arg, current_dir) ==
    canonicalize_or(d, absolute_path(arg, current_dir))

\* the struct that App::new fills before it calls refresh
app_literal(d, rev, root) ==
    [ tree |-> build_tree(d, rev, root),
      expanded |-> {},
      visible_rows |-> <<>>,
      selected_index |-> 0,
      show_hidden |-> FALSE,
      preview_scroll |-> 0,
      preview_cache |-> [content |-> [kind |-> "Empty"], total_lines |-> 0],
      last_preview_path |-> None ]

\* App::new(root): the tree of root, flattened, and the preview of its
\* first row
new_app_at(d, rev, root) ==
    LET a == app_literal(d, rev, root)
        f == flatten_tree(d, rev, build_tree(d, rev, root), a.expanded,
                          a.show_hidden)
    IN refresh_finish(d, rev, a, f.nodes, f.rows)

\* the filesystems the program is started in; l is a link to the root
StartDisks ==
    { Universe \cup {<<NmL>>}, {<<NmA>>, <<NmA, NmC>>, <<NmL>>}, {<<NmA>>} }

\* the paths of an argument: directories, a file, paths through the link,
\* and paths that no filesystem of StartDisks has
StartPaths ==
    { <<NmA>>, <<NmA, NmC>>, <<NmB>>, <<NmL>>, <<NmL, NmA>>, <<NmC>>,
      <<NmT>>, <<NmA, NmT>> }

StartArgs ==
    {None} \cup { Some(PathBuf(abs, cs)) : abs \in BOOLEAN, cs \in StartPaths }

\* env::current_dir: a directory, by its real path
CurrentDirs(d) ==
    { q \in d \cup {<<>>} : is_dir(d, q) /\ canonical(d, q).path = q }

InitStart ==
    /\ disk \in StartDisks
    /\ enum_rev = FALSE
    /\ files = NoFiles
    /\ SetInitApp(app_literal({}, FALSE, <<>>))
    /\ AnsiIdle
    /\ MdIdle
    /\ argv1 \in StartArgs
    /\ cwd \in CurrentDirs(disk)
    /\ started_root = None

\* main, up to the main loop
Main ==
    /\ ~started_root.some
    /\ started_root' = Some(main_root_path(disk, argv1, cwd))
    /\ SetAppVars(new_app_at(disk, enum_rev, started_root'.v))
    /\ UNCHANGED <<disk, enum_rev, fs_changes, files, fl, fl_steps, ansiVars,
                   mdVars, argv1, cwd>>

NextStart == Main

SpecStart == InitStart /\ [][NextStart]_vars

-----------------------------------------------------------------------------
(* What the rows of a directory tree are, stated without the traversal:    *)
(* which paths are shown, in which order, and with which fields.           *)

\* whether the entry at path p is listed as a directory
EntryIsDir(d, p) == IF Last(p) \in LinkNames THEN is_dir(d, p)
                    ELSE Last(p) \in DirNames

\* p is shown: it is an entry of the root or of a shown, expanded directory,
\* not hidden, and not below the depth bound
RECURSIVE IsShown(_, _, _, _)
IsShown(d, exp, hid, p) ==
    /\ Len(p) >= 1
    /\ Len(p) - 1 <= MAX_TREE_DEPTH
    /\ is_dir(d, Parent(p))
    /\ Last(p) \in EntryNames(d, Parent(p))
    /\ hid \/ ~starts_with_dot(Last(p))
    /\ Len(p) = 1 \/ ( /\ Parent(p) \in exp
                       /\ EntryIsDir(d, Parent(p))
                       /\ IsShown(d, exp, hid, Parent(p)) )

AllNames(d) == UNION { {p[i] : i \in 1..Len(p)} : p \in d }

ShownPaths(d, exp, hid) ==
    { p \in { Append(q, n) : q \in exp \cup {<<>>}, n \in AllNames(d) } :
        IsShown(d, exp, hid, p) }

\* the position of a name in a directory's enumeration
EnumPos(d, rev, dir, n) ==
    LET e == read_dir(d, rev, dir) IN CHOOSE i \in 1..Len(e) : e[i] = n

\* x and y are entries of one directory: x is listed before y
SibBefore(d, rev, x, y) ==
    LET xd == EntryIsDir(d, x)
        yd == EntryIsDir(d, y)
        c == StrCmp(to_lowercase(Last(x)), to_lowercase(Last(y)))
    IN IF xd # yd THEN xd
       ELSE IF c # 0 THEN c < 0
       ELSE EnumPos(d, rev, Parent(x), Last(x))
              < EnumPos(d, rev, Parent(x), Last(y))

\* depth-first order: a directory before what it holds, otherwise the order
\* of the two entries where the paths part
PathBefore(d, rev, p, q) ==
    IF IsPrefix(p, q) THEN p # q
    ELSE IF IsPrefix(q, p) THEN FALSE
    ELSE LET i == CHOOSE k \in 1..Len(p) :
                    /\ p[k] # q[k]
                    /\ \A m \in 1..(k - 1) : p[m] = q[m]
         IN SibBefore(d, rev, SubSeq(p, 1, i), SubSeq(q, 1, i))

\* the row of a shown path
ExpectedRow(d, rev, exp, p) ==
    [ node_idx |->
          [j \in 1..Len(p) |->
              Cardinality({ n \in EntryNames(d, SubSeq(p, 1, j - 1)) :
                  /\ n # p[j]
                  /\ SibBefore(d, rev, Append(SubSeq(p, 1, j - 1), n),
                               SubSeq(p, 1, j)) })],
      name |-> Last(p),
      path |-> p,
      is_directory |-> EntryIsDir(d, p),
      is_symlink |-> Last(p) \in LinkNames,
      depth |-> Len(p) - 1,
      is_expanded |-> EntryIsDir(d, p) /\ p \in exp ]

\* rows are the rows of the tree on disk d, expanded as exp
RowsReflect(rows, d, rev, exp, hid) ==
    /\ { rows[i].path : i \in 1..Len(rows) } = ShownPaths(d, exp, hid)
    /\ \A i, j \in 1..Len(rows) :
          i < j => PathBefore(d, rev, rows[i].path, rows[j].path)
    /\ \A i \in 1..Len(rows) :
          rows[i] = ExpectedRow(d, rev, exp, rows[i].path)

RowIndexes == 0..(Len(visible_rows) - 1)

\* the recursive and the iterative flatten_tree agree (SpecDeep, while the
\* recursion is shallow)
FlattenAgree ==
    (~FlActive /\ Cardinality(expanded) <= 5) =>
        LET f == flatten_tree(disk, enum_rev,
                              build_tree(disk, enum_rev, root_path),
                              expanded, show_hidden)
        IN visible_rows = f.rows /\ tree = f.nodes

\* without filesystem changes the rows always reflect the disk
FreshReflect ==
    fs_changes = 0 =>
        RowsReflect(visible_rows, disk, enum_rev, expanded, show_hidden)

-----------------------------------------------------------------------------
(* C1: in every row list flatten_tree produces, find_parent_row of a row   *)
(* at depth d > 0 is an earlier row at depth d - 1, and no row between     *)
(* the two is at a depth below d.                                          *)

C1_ParentRowDepth ==
    \A i \in RowIndexes :
        LET d == visible_rows[i + 1].depth
            j == find_parent_row(visible_rows, i)
        IN d > 0 =>
             /\ j < i
             /\ visible_rows[j + 1].depth = d - 1
             /\ \A k \in (j + 1)..(i - 1) : visible_rows[k + 1].depth >= d

\* a row below the root level whose parent is not the row before it: a
\* deeper row lies between them
C1_Witness ==
    \E i \in RowIndexes :
        /\ i >= 2
        /\ visible_rows[i + 1].depth >= 1
        /\ visible_rows[i].depth > visible_rows[i + 1].depth
        /\ find_parent_row(visible_rows, i) < i - 1

-----------------------------------------------------------------------------
(* C2: every listing build_tree returns has the directories before the     *)
(* files and each kind in case-insensitive name order, and is the same     *)
(* listing in whichever order the filesystem enumerates the directory.     *)

C2_OrderWhateverTheEnumeration ==
    \A rev \in BOOLEAN :
        LET nodes == build_tree(disk, rev, root_path) IN
        /\ \A i, j \in 1..Len(nodes) :
              i < j =>
                /\ nodes[i].is_directory \/ ~nodes[j].is_directory
                /\ nodes[i].is_directory = nodes[j].is_directory =>
                      StrCmp(to_lowercase(nodes[i].name),
                             to_lowercase(nodes[j].name)) <= 0
        /\ nodes = build_tree(disk, ~rev, root_path)

-----------------------------------------------------------------------------
(* C3: toggle_expand on a collapsed directory row i, with the filesystem   *)
(* as the last refresh read it.  The claim as stated: exactly the          *)
(* directory's filtered, sorted children are inserted after row i, all at  *)
(* depth(i) + 1; the other rows and the selected index stay.  The code     *)
(* inserts the directory's flattened subtree: a child that is still in     *)
(* the expanded set from before brings its own rows with it.               *)

SelRow == visible_rows[selected_index + 1]

C3_Pre ==
    /\ RowsReflect(visible_rows, disk, enum_rev, expanded, show_hidden)
    /\ selected_index < Len(visible_rows)
    /\ SelRow.is_directory
    /\ ~SelRow.is_expanded

\* the rows a1 has between row i and the rows that followed it
Inserted(a1) ==
    SubSeq(a1.visible_rows, selected_index + 2,
           selected_index + 1 + (Len(a1.visible_rows) - Len(visible_rows)))

\* row i only changes is_expanded, the rows around the insertion and the
\* selected index stay
C3_Surroundings(a1) ==
    LET n == Len(visible_rows)
        k == Len(a1.visible_rows) - n
    IN /\ k >= 0
       /\ a1.selected_index = selected_index
       /\ \A j \in 1..selected_index :
             a1.visible_rows[j] = visible_rows[j]
       /\ a1.visible_rows[selected_index + 1] =
             [SelRow EXCEPT !.is_expanded = TRUE]
       /\ \A j \in (selected_index + 2)..n :
             a1.visible_rows[j + k] = visible_rows[j]

\* the entries of the selected directory that pass the hidden filter
SelChildren ==
    { Append(SelRow.path, n) : n \in
        { m \in EntryNames(disk, SelRow.path) :
            show_hidden \/ ~starts_with_dot(m) } }

\* the claim as stated
C3_ExpandInsertsChildrenOnly ==
    C3_Pre =>
        LET a1 == toggle_expand(disk, enum_rev, app)
            ins == Inserted(a1)
        IN /\ C3_Surroundings(a1)
           /\ { ins[j].path : j \in 1..Len(ins) } = SelChildren
           /\ \A j \in 1..Len(ins) : ins[j].depth = SelRow.depth + 1
           /\ \A j, m \in 1..Len(ins) :
                 j < m => SibBefore(disk, enum_rev, ins[j].path, ins[m].path)

\* what the code does
C3_ExpandInsertsSubtree ==
    C3_Pre =>
        LET a1 == toggle_expand(disk, enum_rev, app)
            ins == Inserted(a1)
            paths == { ins[j].path : j \in 1..Len(ins) }
        IN /\ C3_Surroundings(a1)
           /\ a1.expanded = expanded \cup {SelRow.path}
           /\ paths = { p \in ShownPaths(disk, a1.expanded, show_hidden) :
                           IsPrefix(SelRow.path, p) /\ p # SelRow.path }
           /\ { p \in paths : Len(p) = Len(SelRow.path) + 1 } = SelChildren
           /\ \A q \in paths :
                 Len(q) > Len(SelRow.path) + 1 => Parent(q) \in expanded
           /\ \A j \in 1..Len(ins) :
                 ins[j] = ExpectedRow(disk, enum_rev, a1.expanded, ins[j].path)
           /\ \A j, m \in 1..Len(ins) :
                 j < m => PathBefore(disk, enum_rev, ins[j].path, ins[m].path)

\* a collapsed directory, not the first row, with a child still in the
\* expanded set: expanding it inserts rows two levels down
C3_Witness ==
    /\ C3_Pre
    /\ selected_index > 0
    /\ LET ins == Inserted(toggle_expand(disk, enum_rev, app))
       IN \E j \in 1..Len(ins) : ins[j].depth = SelRow.depth + 2

-----------------------------------------------------------------------------
(* C4: refresh reads the tree again from disk: after every command that    *)
(* ends in refresh the rows are the flatten of the filesystem as it is     *)
(* now (root level and every expanded directory), under the expanded set   *)
(* and hidden flag the command leaves, whatever was displayed before.      *)

Reflects(a1) ==
    RowsReflect(a1.visible_rows, disk, enum_rev, a1.expanded, a1.show_hidden)

C4_RefreshReadsDisk ==
    /\ Reflects(refresh(disk, enum_rev, app))
    /\ Reflects(toggle_hidden(disk, enum_rev, app))
    /\ toggle_expand_pre(app).go =>
          Reflects(toggle_expand(disk, enum_rev, app))
    /\ (selected_index < Len(visible_rows) /\ SelRow.is_expanded) =>
          Reflects(collapse_or_parent(disk, enum_rev, app))

\* the filesystem has changed under the displayed rows: an entry created in
\* an expanded directory is on disk and not displayed, and the rows a
\* refresh produces have it
C4_Witness ==
    LET shown == { visible_rows[i].path : i \in 1..Len(visible_rows) }
        now == ShownPaths(disk, expanded, show_hidden)
        a1 == refresh(disk, enum_rev, app)
    IN /\ fs_changes > 0
       /\ expanded # {}
       /\ \E p \in now \ shown :
             /\ Len(p) = 2
             /\ \E i \in 1..Len(a1.visible_rows) : a1.visible_rows[i].path = p

-----------------------------------------------------------------------------
(* C5: the claim as stated: every command, the selection moves included,   *)
(* re-reads the directories, so the rows after any command reflect the     *)
(* disk.  The code re-reads only in refresh: the commands that change the  *)
(* expanded set or the hidden flag; a selection move leaves tree and       *)
(* visible_rows as they were.                                              *)

\* the commands that end in update_preview
SelectionMoves ==
    { move_down(disk, enum_rev, app), move_up(disk, enum_rev, app),
      jump_top(disk, enum_rev, app), jump_bottom(disk, enum_rev, app) }
    \cup (IF selected_index < Len(visible_rows) /\ SelRow.is_expanded
          THEN {} ELSE {collapse_or_parent(disk, enum_rev, app)})
    \cup (IF toggle_expand_pre(app).go
          THEN {} ELSE {toggle_expand(disk, enum_rev, app)})
    \cup { click_tree(disk, enum_rev, app, y, h) : <<y, h>> \in
             { c \in ClickYs \X Heights :
                 LET hit == click_row_idx(app, c[1], c[2])
                 IN hit.some => ~visible_rows[hit.v + 1].is_directory } }

\* the commands that end in refresh
RefreshingCommands ==
    { toggle_hidden(disk, enum_rev, app) }
    \cup (IF selected_index < Len(visible_rows) /\ SelRow.is_expanded
          THEN {collapse_or_parent(disk, enum_rev, app)} ELSE {})
    \cup (IF toggle_expand_pre(app).go
          THEN {toggle_expand(disk, enum_rev, app)} ELSE {})
    \cup { click_tree(disk, enum_rev, app, y, h) : <<y, h>> \in
             { c \in ClickYs \X Heights :
                 LET hit == click_row_idx(app, c[1], c[2])
                 IN hit.some /\ visible_rows[hit.v + 1].is_directory } }

-----------------------------------------------------------------------------
(* C6: flatten_tree terminates although the directories form a cycle       *)
(* through a symlink and every path along it is expanded; no row it emits  *)
(* is deeper than MAX_TREE_DEPTH; what lies below is left out and the      *)
(* flatten completes with the rows above it.                               *)

DepthsBounded ==
    /\ \A i \in 1..Len(visible_rows) :
          visible_rows[i].depth <= MAX_TREE_DEPTH
    /\ \A i \in 1..Len(fl.rows) : fl.rows[i].depth <= MAX_TREE_DEPTH

\* the directory at the depth bound is expanded: its row is the last one
PrunedBelowBound ==
    (~FlActive /\ ChainPath(MAX_TREE_DEPTH + 1) \in expanded) =>
        /\ Len(visible_rows) = MAX_TREE_DEPTH + 1
        /\ visible_rows[MAX_TREE_DEPTH + 1].path
              = ChainPath(MAX_TREE_DEPTH + 1)
        /\ visible_rows[MAX_TREE_DEPTH + 1].is_expanded

C6_FlattenTerminatesBounded ==
    /\ [](DepthsBounded /\ PrunedBelowBound)
    /\ FlActive ~> ~FlActive

\* a flatten has completed with the whole cycle expanded down to the bound:
\* the last row is an expanded directory at depth MAX_TREE_DEPTH, and its
\* entries, which are on disk, have no rows
C6_Witness ==
    /\ ~FlActive
    /\ Chain(MAX_TREE_DEPTH + 1) \subseteq expanded
    /\ Len(visible_rows) = MAX_TREE_DEPTH + 1
    /\ LET r == visible_rows[Len(visible_rows)]
       IN /\ r.depth = MAX_TREE_DEPTH
          /\ r.is_expanded
          /\ read_dir(disk, enum_rev, r.path) # <<>>

-----------------------------------------------------------------------------
(* C7: with show_hidden false no row at any depth has a name starting      *)
(* with a dot, and the rows left are the rows of show_hidden true in the   *)
(* same order; with show_hidden true every entry of the root and of each   *)
(* expanded directory has a row.                                           *)

HiddenPath(p) == \E k \in 1..Len(p) : starts_with_dot(p[k])

NotUnderHidden(r) == ~HiddenPath(r.path)

C7_HiddenFilter ==
    LET t == build_tree(disk, enum_rev, root_path)
        off == flatten_tree(disk, enum_rev, t, expanded, FALSE).rows
        on == flatten_tree(disk, enum_rev, t, expanded, TRUE).rows
    IN /\ \A i \in 1..Len(off) : ~starts_with_dot(off[i].name)
       /\ off = SelectSeq(on, NotUnderHidden)
       /\ { on[i].path : i \in 1..Len(on) } =
             { p \in disk :
                 \A k \in 1..(Len(p) - 1) : SubSeq(p, 1, k) \in expanded }
       /\ toggle_hidden(disk, enum_rev, app).visible_rows =
             IF show_hidden THEN off ELSE on
       /\ ~show_hidden =>
             \A i \in 1..Len(visible_rows) :
                 ~starts_with_dot(visible_rows[i].name)

\* hidden entries are displayed at the root and inside a directory, and so
\* is an entry of a hidden directory
C7_Witness ==
    /\ show_hidden
    /\ \E i \in 1..Len(visible_rows) :
          visible_rows[i].depth = 0 /\ starts_with_dot(visible_rows[i].name)
    /\ \E i \in 1..Len(visible_rows) :
          visible_rows[i].depth = 1 /\ starts_with_dot(visible_rows[i].name)
    /\ \E i \in 1..Len(visible_rows) :
          /\ ~starts_with_dot(visible_rows[i].name)
          /\ HiddenPath(visible_rows[i].path)

-----------------------------------------------------------------------------
(* C8: with n rows, the row s < n selected and a viewport of H lines (the  *)
(* panel height less the status line), the scroll offset of the tree is 0  *)
(* when n <= H and min(max(s - H div 2, 0), n - H) otherwise; it lies in   *)
(* 0 .. max(n - H, 0).                                                     *)

WinHeights == 0..MaxWinHeight

Max(a, b) == IF a >= b THEN a ELSE b

C8_ScrollOffset ==
    \A h \in WinHeights :
        LET H == IF h >= 1 THEN h - 1 ELSE 0
            n == Len(visible_rows)
            s == selected_index
            offset == draw_scroll_offset(app, h)
        IN s < n =>
             /\ offset = IF n <= H THEN 0
                         ELSE Min(Max(s - (H \div 2), 0), n - H)
             /\ 0 <= offset
             /\ offset <= Max(n - H, 0)

\* the selection has moved near the end of a list longer than the viewport:
\* centring would scroll past the end, the offset is n - H
C8_Witness ==
    \E h \in WinHeights :
        LET H == h - 1
            n == Len(visible_rows)
        IN /\ h >= 3
           /\ n > H
           /\ selected_index < n
           /\ selected_index - (H \div 2) > n - H
           /\ draw_scroll_offset(app, h) = n - H

-----------------------------------------------------------------------------
(* C9: for every state and terminal height click_tree computes the scroll  *)
(* offset draw_tree computes, so a click on screen line y lands on the     *)
(* row drawn on line y, and on no row where none is drawn: a file row      *)
(* becomes the selected row, a directory row is selected and toggled.      *)

C9_ClickMatchesDraw ==
    \A h \in Heights, y \in ClickYs :
        LET hit == drawn_row_at(app, y, h)
            a1 == click_tree(disk, enum_rev, app, y, h)
        IN /\ click_scroll_offset(app, h) = draw_scroll_offset(app, h)
           /\ click_row_idx(app, y, h) = hit
           /\ IF ~hit.some THEN a1 = app
              ELSE LET r == visible_rows[hit.v + 1] IN
                   IF r.is_directory
                   THEN /\ a1.expanded =
                             IF r.path \in expanded
                             THEN expanded \ {r.path}
                             ELSE expanded \cup {r.path}
                        /\ hit.v < Len(a1.visible_rows) =>
                             a1.selected_index = hit.v
                   ELSE /\ a1.selected_index = hit.v
                        /\ a1.last_preview_path = Some(r.path)
                        /\ a1.visible_rows = visible_rows
                        /\ a1.expanded = expanded

\* the panel is scrolled and a click lands on a drawn row that is not the
\* selected one
C9_Witness ==
    \E h \in Heights, y \in ClickYs :
        /\ draw_scroll_offset(app, h) > 0
        /\ drawn_row_at(app, y, h).some
        /\ drawn_row_at(app, y, h).v # selected_index
        /\ click_tree(disk, enum_rev, app, y, h).selected_index
              = draw_scroll_offset(app, h) + (y - 2)

-----------------------------------------------------------------------------
(* C10: in every state with rows and with at least one entry line on       *)
(* screen, the selected row is one of the rows draw_tree draws:            *)
(* offset <= selected_index < offset + the number of entry lines drawn.    *)

C10_SelectedRowDrawn ==
    \A h \in WinHeights :
        LET entries_to_show == saturating_sub(saturating_sub(h, 1), 2)
            offset == draw_scroll_offset(app, h)
            drawn == draw_visible_end(app, h) - offset
        IN (Len(visible_rows) > 0 /\ entries_to_show >= 1) =>
             /\ offset <= selected_index
             /\ selected_index < offset + drawn

-----------------------------------------------------------------------------
(* C11: the preview is computed only on a step where the path of the       *)
(* selected row differs from the path it was last computed for; on every   *)
(* other step the cached content and line count stay as they are, also     *)
(* when the file or directory has changed on disk since.                   *)

\* the steps that can change the selection or the preview: the commands,
\* and the selection a click makes of each row
PreviewSteps ==
    { move_down(disk, enum_rev, app), move_up(disk, enum_rev, app),
      jump_top(disk, enum_rev, app), jump_bottom(disk, enum_rev, app),
      toggle_expand(disk, enum_rev, app),
      collapse_or_parent(disk, enum_rev, app),
      toggle_hidden(disk, enum_rev, app) }
    \cup { scroll_preview_down(app, n) : n \in ScrollAmounts }
    \cup { scroll_preview_up(app, n) : n \in ScrollAmounts }
    \cup { update_preview(disk, enum_rev,
               [app EXCEPT !.selected_index = i, !.preview_scroll = 0]) :
           i \in RowIndexes }

SelectedPath(a) ==
    IF a.selected_index < Len(a.visible_rows)
    THEN Some(a.visible_rows[a.selected_index + 1].path)
    ELSE None

C11_PreviewMemoized ==
    \A a1 \in PreviewSteps :
        IF SelectedPath(a1) = last_preview_path
        THEN /\ a1.preview_cache = preview_cache
             /\ a1.last_preview_path = last_preview_path
        ELSE /\ a1.last_preview_path = SelectedPath(a1)
             /\ a1.preview_cache =
                   IF SelectedPath(a1).some
                   THEN preview(disk, enum_rev, SelectedPath(a1).v)
                   ELSE [content |-> [kind |-> "Empty"], total_lines |-> 0]

\* an entry has been created in the selected directory since its preview
\* was computed: expanding it reads the directory and shows the entry, and
\* the cached preview still counts the entries there were
C11_Witness ==
    /\ fs_changes > 0
    /\ last_preview_path.some
    /\ last_preview_path = SelectedPath(app)
    /\ is_dir(disk, last_preview_path.v)
    /\ preview_cache # preview(disk, enum_rev, last_preview_path.v)
    /\ LET a1 == toggle_expand(disk, enum_rev, app)
       IN /\ a1.visible_rows # visible_rows
          /\ a1.preview_cache = preview_cache

-----------------------------------------------------------------------------
(* C15: preview_scroll never exceeds the total_lines of the cached         *)
(* preview, whatever scroll commands and selection changes came before.    *)

C15_ScrollWithinTotalLines == preview_scroll <= preview_cache.total_lines

-----------------------------------------------------------------------------
(* Claims about the variant preview chooses, checked in SpecClassify.      *)

\* the names listed whose extension is one of the binary ones ("o")
BinaryNamed(p) == Last(p) \in {NmXO, NmDirO}

\* the cached preview is the one of the selected row, which is path p
CachedFor(p) ==
    /\ SelectedPath(app) = Some(p)
    /\ last_preview_path = Some(p)
    /\ preview_cache = preview(disk, enum_rev, p)

\* C12: the variant of a preview is chosen by the first rule that matches:
\* a path whose metadata cannot be read is an Error, a directory is a
\* Directory whatever its name, a file with a binary extension is Binary
\* whatever its length and content, then a file of length 0 is Empty, a
\* file over the ceiling is the placeholder Text, a file that cannot be
\* decoded is an Error, and any other file is Text.
C12_FirstRuleWins ==
    \A p \in PvUniverse :
        LET pv == preview(disk, enum_rev, p)
            k == pv.content.kind
            len == file_len(file_at(disk, p))
        IN IF p \notin disk THEN k = "Error"
           ELSE IF Last(p) \in DirNames THEN k = "Directory"
           ELSE IF BinaryNamed(p) THEN k = "Binary"
           ELSE IF len = 0 THEN k = "Empty"
           ELSE IF len > MAX_PREVIEW_BYTES
           THEN k = "Text" /\ pv.content.render = "too_large"
           ELSE IF ~file_at(disk, p).utf8 THEN k = "Error"
           ELSE k = "Text" /\ pv.content.render \in {"code", "markdown"}

\* an empty file with a binary extension is selected and previewed as Binary
C12_Witness ==
    /\ <<NmXO>> \in disk
    /\ file_len(file_at(disk, <<NmXO>>)) = 0
    /\ CachedFor(<<NmXO>>)
    /\ preview_cache.content.kind = "Binary"

\* C13: a file without binary extension of exactly MAX_PREVIEW_BYTES bytes
\* is read (it is Text with the line count of its content, or an Error when
\* it cannot be decoded); a longer one is the placeholder Text with
\* total_lines 1 whatever it holds, readable or not.
C13_CeilingInclusive ==
    \A p \in PvFiles \cap disk :
        ~BinaryNamed(p) =>
            LET f == file_at(disk, p)
                pv == preview(disk, enum_rev, p)
            IN /\ file_len(f) = MAX_PREVIEW_BYTES =>
                      IF f.utf8
                      THEN /\ pv.content.kind = "Text"
                           /\ pv.content.render # "too_large"
                           /\ pv.total_lines = SumRuns(f.runs, LF)
                                 + (IF f.runs[Len(f.runs)].b # LF THEN 1 ELSE 0)
                      ELSE pv.content.kind = "Error"
               /\ file_len(f) >= MAX_PREVIEW_BYTES + 1 =>
                      /\ pv = [ content |-> [kind |-> "Text",
                                            render |-> "too_large",
                                            size |-> format_size(file_len(f))],
                                total_lines |-> 1 ]
                      /\ pv = preview_file(p, [utf8 |-> ~f.utf8,
                                              runs |-> <<Run(ChX, file_len(f))>>])

\* a text file of exactly MAX_PREVIEW_BYTES bytes is selected and previewed
C13_Witness ==
    /\ <<NmT>> \in disk
    /\ file_len(file_at(disk, <<NmT>>)) = MAX_PREVIEW_BYTES
    /\ file_at(disk, <<NmT>>).utf8
    /\ CachedFor(<<NmT>>)
    /\ preview_cache.content.kind = "Text"
    /\ preview_cache.content.render = "code"

\* the number of lines of a content: one per LF, and one more for what
\* follows the last LF
NumLines(runs) ==
    SumRuns(runs, LF)
    + (IF runs # <<>> /\ runs[Len(runs)].b # LF THEN 1 ELSE 0)

RECURSIVE ByteAt(_, _)
ByteAt(runs, i) ==
    IF i <= Head(runs).n THEN Head(runs).b
    ELSE ByteAt(Tail(runs), i - Head(runs).n)

\* s is the start of c
IsRunPrefix(s, c) ==
    \/ s = <<>>
    \/ /\ Len(s) <= Len(c)
       /\ \A i \in 1..(Len(s) - 1) : s[i] = c[i]
       /\ s[Len(s)].b = c[Len(s)].b
       /\ s[Len(s)].n <= c[Len(s)].n

\* s is the first MAX_PREVIEW_LINES lines of c: what precedes the LF that
\* ends line MAX_PREVIEW_LINES
FirstLines(s, c) ==
    /\ IsRunPrefix(s, c)
    /\ SumRuns(s, LF) = MAX_PREVIEW_LINES - 1
    /\ ByteAt(c, SumRuns(s, -1) + 1) = LF

\* C14: for a readable text file of n lines total_lines is n; the text
\* handed to rendering is the whole content when n <= MAX_PREVIEW_LINES and
\* its first MAX_PREVIEW_LINES lines when n is larger.
C14_LineCountAndTruncation ==
    \A p \in PvFiles \cap disk :
        LET f == file_at(disk, p)
            pv == preview(disk, enum_rev, p)
            n == NumLines(f.runs)
        IN (/\ ~BinaryNamed(p) /\ f.utf8
            /\ file_len(f) > 0 /\ file_len(f) <= MAX_PREVIEW_BYTES) =>
               /\ pv.content.kind = "Text"
               /\ pv.total_lines = n
               /\ IF n <= MAX_PREVIEW_LINES
                  THEN pv.content.src = f.runs
                  ELSE FirstLines(pv.content.src, f.runs)

\* a text file of more than MAX_PREVIEW_LINES lines is selected and previewed
C14_Witness ==
    /\ <<NmT>> \in disk
    /\ file_at(disk, <<NmT>>).utf8
    /\ NumLines(file_at(disk, <<NmT>>).runs) = MAX_PREVIEW_LINES + 1
    /\ CachedFor(<<NmT>>)
    /\ preview_cache.total_lines = MAX_PREVIEW_LINES + 1
    /\ preview_cache.content.src # file_at(disk, <<NmT>>).runs

-----------------------------------------------------------------------------
(* Claims about parse_ansi_line, checked in SpecAnsi.  What a list of SGR  *)
(* codes makes of a style is stated here attribute by attribute, from the  *)
(* last code that touches the attribute.                                   *)

ModAll == {"BOLD", "DIM", "ITALIC", "UNDERLINED", "REVERSED", "CROSSED_OUT"}

SetCode(m) ==
    CASE m = "BOLD" -> 1 [] m = "DIM" -> 2 [] m = "ITALIC" -> 3
      [] m = "UNDERLINED" -> 4 [] m = "REVERSED" -> 7
      [] m = "CROSSED_OUT" -> 9

\* no code clears CROSSED_OUT
ClearCode(m) ==
    CASE m = "BOLD" -> 22 [] m = "DIM" -> 22 [] m = "ITALIC" -> 23
      [] m = "UNDERLINED" -> 24 [] m = "REVERSED" -> 27
      [] m = "CROSSED_OUT" -> -1

BasicNames ==
    <<"Black", "Red", "Green", "Yellow", "Blue", "Magenta", "Cyan", "White">>
BrightNames ==
    <<"DarkGray", "LightRed", "LightGreen", "LightYellow", "LightBlue",
      "LightMagenta", "LightCyan", "White">>

FgCodes == (30..37) \cup (90..97) \cup {39}
BgCodes == (40..47) \cup (100..107) \cup {49}

\* the codes with an arm in the match
SgrTable ==
    {0, 1, 2, 3, 4, 7, 9, 22, 23, 24, 27, 38, 48} \cup FgCodes \cup BgCodes

ColorOf(code) ==
    IF code \in {39, 49} THEN Color("Reset")
    ELSE IF code \in 30..37 THEN Color(BasicNames[code - 29])
    ELSE IF code \in 40..47 THEN Color(BasicNames[code - 39])
    ELSE IF code \in 90..97 THEN Color(BrightNames[code - 89])
    ELSE Color(BrightNames[code - 99])

\* the last place of codes that holds one of S, 0 when none does
LastIn(codes, S) ==
    LET at == { i \in 1..Len(codes) : codes[i] \in S } IN
    IF at = {} THEN 0 ELSE CHOOSE i \in at : \A j \in at : j <= i

\* the style that the codes make of style s0
StyleFrom(s0, codes) ==
    LET z == LastIn(codes, {0})
        base == IF z > 0 THEN Style_default ELSE s0
        touch(m) == LastIn(codes, {SetCode(m), ClearCode(m)})
        isSet(m) == touch(m) > z /\ codes[touch(m)] = SetCode(m)
        isClr(m) == touch(m) > z /\ codes[touch(m)] = ClearCode(m)
        f == LastIn(codes, FgCodes)
        b == LastIn(codes, BgCodes)
    IN [ fg |-> IF f > z THEN Some(ColorOf(codes[f])) ELSE base.fg,
         bg |-> IF b > z THEN Some(ColorOf(codes[b])) ELSE base.bg,
         add |-> { m \in ModAll : isSet(m) \/ (m \in base.add /\ ~isClr(m)) },
         sub |-> { m \in ModAll : isClr(m) \/ (m \in base.sub /\ ~isSet(m)) } ]

\* the parameters that the digits of a piece stand for
SgrCodes(piece) ==
    IF piece.params = <<>> THEN <<0>>
    ELSE [ i \in 1..Len(piece.params) |->
             IF piece.params[i] < 0 THEN 0 ELSE piece.params[i] ]

\* codes without parameters of their own that fit a u16
SimpleCodes(codes) ==
    \A i \in 1..Len(codes) :
        codes[i] >= 0 /\ codes[i] < U16 /\ codes[i] \notin {38, 48}

\* every sequence of the pieces is an SGR sequence of such codes
AllSimple(src) ==
    \A k \in 1..Len(src) :
        src[k].kind = "csi" =>
            src[k].term = LOWER_M /\ SimpleCodes(SgrCodes(src[k]))

RECURSIVE CodesOf(_)
CodesOf(src) ==
    IF src = <<>> THEN <<>>
    ELSE (IF Head(src).kind = "csi" THEN SgrCodes(Head(src)) ELSE <<>>)
         \o CodesOf(Tail(src))

\* the runs of the pieces src that follow the codes given
RECURSIVE ExpectedRuns(_, _)
ExpectedRuns(src, codes) ==
    IF src = <<>> THEN <<>>
    ELSE IF Head(src).kind = "text"
    THEN <<Span(Head(src).bytes, StyleFrom(Style_default, codes))>>
         \o ExpectedRuns(Tail(src), codes)
    ELSE ExpectedRuns(Tail(src), codes \o SgrCodes(Head(src)))

\* the run that the text piece k of the line has become
RunOf(k) ==
    ansi_line.spans[Cardinality({ j \in 1..k : ansi_src[j].kind = "text" })]

Example == <<Csi(<<1, 31>>, LOWER_M), TextPiece(ERR), Csi(<<0>>, LOWER_M)>>

\* C16: the style accumulates across SGR sequences: each run is not empty
\* and has the style that all the parameters before it since the start of
\* the line make of the default style; a run right after a parameter 0 has
\* the default style; ESC[1;31m ERR ESC[0m is the one run ERR, bold and red.
C16_StyleAccumulates ==
    (ansi_line.parsed /\ AllSimple(ansi_src)) =>
        /\ ~ansi_line.panicked
        /\ ansi_line.spans = ExpectedRuns(ansi_src, <<>>)
        /\ \A k \in 1..Len(ansi_line.spans) : ansi_line.spans[k].text # <<>>
        /\ \A k \in 2..Len(ansi_src) :
              (/\ ansi_src[k].kind = "text"
               /\ ansi_src[k - 1].kind = "csi"
               /\ LET c == SgrCodes(ansi_src[k - 1]) IN c[Len(c)] = 0)
              => RunOf(k).style = Style_default
        /\ ansi_src = Example =>
              ansi_line.spans =
                 << Span(ERR, [ fg |-> Some(Color("Red")), bg |-> None,
                                add |-> {"BOLD"}, sub |-> {} ]) >>

\* three runs: before any sequence, after all is set and 22, after a reset
C16_Witness ==
    /\ ansi_line.parsed
    /\ ansi_src = << TextPiece(ERR), Csi(AllSet, LOWER_M),
                     Csi(<<22>>, LOWER_M), TextPiece(ERR),
                     Csi(<<0>>, LOWER_M), TextPiece(<<CH_X>>) >>
    /\ Len(ansi_line.spans) = 3
    /\ ansi_line.spans[1].style = Style_default
    /\ ansi_line.spans[2].style.add = ModAll \ {"BOLD", "DIM"}
    /\ ansi_line.spans[2].style.fg = Some(Color("Red"))
    /\ ansi_line.spans[3].style = Style_default

\* the characters of a line, each with its style
RECURSIVE Chars(_)
Chars(spans) ==
    IF spans = <<>> THEN <<>>
    ELSE [ i \in 1..Len(Head(spans).text) |->
             [ch |-> Head(spans).text[i], style |-> Head(spans).style] ]
         \o Chars(Tail(spans))

RemoveAt(src, k) == SubSeq(src, 1, k - 1) \o SubSeq(src, k + 1, Len(src))

\* C17: a CSI sequence that ends with a byte other than 'm' is dropped: the
\* line is rendered, characters and styles, as the line without the sequence.
C17_NonSgrDropped ==
    (ansi_line.parsed /\ ~ansi_line.panicked) =>
        \A k \in 1..Len(ansi_src) :
            (ansi_src[k].kind = "csi"
             /\ ansi_src[k].term \notin {LOWER_M, 0}) =>
                Chars(ansi_line.spans)
                = Chars(parse_ansi_line(Encode(RemoveAt(ansi_src, k))).spans)

\* a parameter list 38;5;N or 38;2;R;G;B (or 48;...) with components that
\* fit a u8, and simple codes after it
IsExtended(params) ==
    /\ Len(params) >= 3
    /\ params[1] \in {38, 48}
    /\ \/ /\ params[2] = 5
          /\ params[3] \in 0..(U8 - 1)
          /\ SimpleCodes(SubSeq(params, 4, Len(params)))
       \/ /\ params[2] = 2
          /\ Len(params) >= 5
          /\ \A i \in 3..5 : params[i] \in 0..(U8 - 1)
          /\ SimpleCodes(SubSeq(params, 6, Len(params)))

\* C18: 38;5;N (48;5;N) makes the foreground (background) the indexed
\* colour N and 38;2;R;G;B (48;2;R;G;B) the colour RGB(R,G,B); the values
\* consumed change nothing else, and the parameters after them are applied
\* as the codes they are.
C18_ExtendedColours ==
    ansi_line.parsed =>
        \A k \in 1..(Len(ansi_src) - 1) :
            (/\ ansi_src[k].kind = "csi"
             /\ ansi_src[k].term = LOWER_M
             /\ ansi_src[k + 1].kind = "text"
             /\ AllSimple(SubSeq(ansi_src, 1, k - 1))
             /\ IsExtended(ansi_src[k].params)) =>
                LET ps == ansi_src[k].params
                    s0 == StyleFrom(Style_default,
                                    CodesOf(SubSeq(ansi_src, 1, k - 1)))
                    col == IF ps[2] = 5 THEN Indexed(ps[3])
                           ELSE Rgb(ps[3], ps[4], ps[5])
                    s1 == IF ps[1] = 38 THEN [s0 EXCEPT !.fg = Some(col)]
                          ELSE [s0 EXCEPT !.bg = Some(col)]
                    rest == SubSeq(ps, IF ps[2] = 5 THEN 4 ELSE 6, Len(ps))
                IN /\ ~ansi_line.panicked
                   /\ RunOf(k + 1).style = StyleFrom(s1, rest)

\* RGB components that are codes themselves, and a code after them
C18_Witness ==
    /\ ansi_line.parsed
    /\ ansi_src = << Csi(<<38, 2, 1, 4, 7, 49>>, LOWER_M), TextPiece(ERR) >>
    /\ ansi_line.spans =
          << Span(ERR, [ fg |-> Some(Rgb(1, 4, 7)),
                         bg |-> Some(Color("Reset")),
                         add |-> {}, sub |-> {} ]) >>

\* C19: 39 changes the foreground only and 49 the background only; 22
\* clears bold and dim, 23 italic, 24 underline and 27 reverse, and nothing
\* else; a code outside the table changes nothing.
C19_PartialResets ==
    ansi_line.parsed =>
        \A k \in 1..(Len(ansi_src) - 1) :
            (/\ ansi_src[k].kind = "csi"
             /\ ansi_src[k].term = LOWER_M
             /\ Len(ansi_src[k].params) = 1
             /\ ansi_src[k].params[1] \in 0..(U16 - 1)
             /\ ansi_src[k + 1].kind = "text"
             /\ AllSimple(SubSeq(ansi_src, 1, k - 1))) =>
                LET c == ansi_src[k].params[1]
                    s0 == StyleFrom(Style_default,
                                    CodesOf(SubSeq(ansi_src, 1, k - 1)))
                    s1 == RunOf(k + 1).style
                    cleared(ms) ==
                        /\ s1.add = s0.add \ ms
                        /\ s1.fg = s0.fg /\ s1.bg = s0.bg
                        /\ s1.sub = s0.sub \cup ms
                IN /\ c = 39 => s1 = [s0 EXCEPT !.fg = Some(Color("Reset"))]
                   /\ c = 49 => s1 = [s0 EXCEPT !.bg = Some(Color("Reset"))]
                   /\ c = 22 => cleared({"BOLD", "DIM"})
                   /\ c = 23 => cleared({"ITALIC"})
                   /\ c = 24 => cleared({"UNDERLINED"})
                   /\ c = 27 => cleared({"REVERSED"})
                   /\ c \notin SgrTable => s1 = s0

\* everything is set, then 23
C19_Witness ==
    /\ ansi_line.parsed
    /\ ansi_src = << Csi(AllSet, LOWER_M), Csi(<<23>>, LOWER_M),
                     TextPiece(ERR) >>
    /\ ansi_line.spans[1].style =
          [ fg |-> Some(Color("Red")), bg |-> Some(Color("Green")),
            add |-> ModAll \ {"ITALIC"}, sub |-> {"ITALIC"} ]

\* C20: parse_ansi_line does not abort, whatever the line.
C20_NeverAborts == ~ansi_line.panicked

\* the characters that UTF-8 bytes stand for
RECURSIVE Utf8Decode(_)
Utf8Decode(bytes) ==
    IF bytes = <<>> THEN <<>>
    ELSE IF bytes[1] < 128
    THEN <<bytes[1]>> \o Utf8Decode(Tail(bytes))
    ELSE IF bytes[1] < 224
    THEN <<(bytes[1] - 192) * 64 + (bytes[2] - 128)>>
         \o Utf8Decode(SubSeq(bytes, 3, Len(bytes)))
    ELSE <<(bytes[1] - 224) * 4096 + (bytes[2] - 128) * 64 + (bytes[3] - 128)>>
         \o Utf8Decode(SubSeq(bytes, 4, Len(bytes)))

\* the bytes of the texts of a line
RECURSIVE TextBytes(_)
TextBytes(src) ==
    IF src = <<>> THEN <<>>
    ELSE (IF Head(src).kind = "text" THEN Head(src).bytes ELSE <<>>)
         \o TextBytes(Tail(src))

\* the characters of the runs, in order
RECURSIVE RunText(_)
RunText(spans) ==
    IF spans = <<>> THEN <<>> ELSE Head(spans).text \o RunText(Tail(spans))

\* C21: the text of the runs, put together, is the characters of the line
\* with every CSI sequence taken out; a character of several bytes is one
\* character of the output.
C21_TextPassesThrough ==
    (ansi_line.parsed /\ ~ansi_line.panicked) =>
        RunText(ansi_line.spans) = Utf8Decode(TextBytes(ansi_src))

-----------------------------------------------------------------------------
(* Claims about the markdown renderer, checked in SpecMarkdown.  What a    *)
(* rendering shows is read off it with parse_ansi_line, as draw_preview    *)
(* does.                                                                   *)

\* the characters that a rendering shows, each with its modifiers
Shown(out) ==
    LET cs == Chars(parse_ansi_line(out).spans)
    IN [ k \in 1..Len(cs) |-> [ch |-> cs[k].ch, add |-> cs[k].style.add] ]

\* the text s, every character with the modifiers ms
Styled(s, ms) == [ k \in 1..Len(s) |-> [ch |-> s[k], add |-> ms] ]

\* texts without a delimiter and without a blank
PlainTexts == SeqsUpTo({CH_a}, MaxPieces - 2) \ { <<>> }

\* C22: an italic span inside a bold span, **a *x* c**, shows x italic and
\* bold, without its asterisks, and what is around it in the span bold.
C22_ItalicInsideBold ==
    (md_out.some /\ md_out.by = "render_inline") =>
        \A x \in PlainTexts :
            md_src = <<STAR, STAR, CH_a, BLANK, STAR>> \o x
                     \o <<STAR, BLANK, CH_c, STAR, STAR>>
            => Shown(md_out.out)
               = Styled(<<CH_a, BLANK>>, {"BOLD"})
                 \o Styled(x, {"BOLD", "ITALIC"})
                 \o Styled(<<BLANK, CH_c>>, {"BOLD"})

\* a is b with some of its elements taken out
RECURSIVE IsSubseq(_, _)
IsSubseq(a, b) ==
    IF a = <<>> THEN TRUE
    ELSE IF b = <<>> THEN FALSE
    ELSE IF Head(a) = Head(b) THEN IsSubseq(Tail(a), Tail(b))
    ELSE IsSubseq(a, Tail(b))

Delimiters == {BACKTICK, STAR, LBRACKET, RSQUARE, LPAREN, RPAREN}

\* the place p of text t may be in the "](url)" of a link: a '[' , then
\* "](" , then p, then ')'
MayBeUrl(t, p) ==
    \E o \in 1..Len(t), q \in 1..(Len(t) - 1), r \in 1..Len(t) :
        /\ o < q /\ q + 1 < p /\ p < r
        /\ t[o] = LBRACKET /\ t[q] = RSQUARE /\ t[q + 1] = LPAREN
        /\ t[r] = RPAREN

\* the characters of t that are no delimiters and in no "](url)"
RECURSIVE KeptFrom(_, _)
KeptFrom(t, p) ==
    IF p > Len(t) THEN <<>>
    ELSE (IF t[p] \notin Delimiters /\ ~MayBeUrl(t, p) THEN <<t[p]>>
          ELSE <<>>) \o KeptFrom(t, p + 1)

Occurrences(t, c) == Cardinality({ p \in 1..Len(t) : t[p] = c })

\* no span of t can be matched: at most one backtick, at most one asterisk,
\* and no '[' , "](" , ')' in this order
NoSpan(t) ==
    /\ Occurrences(t, BACKTICK) <= 1
    /\ Occurrences(t, STAR) <= 1
    /\ ~\E o \in 1..Len(t), q \in 1..(Len(t) - 1), r \in 1..Len(t) :
          /\ o < q /\ q + 1 < r
          /\ t[o] = LBRACKET /\ t[q] = RSQUARE /\ t[q + 1] = LPAREN
          /\ t[r] = RPAREN

RuleLine(line) ==
    \E c \in {DASH, STAR, UNDERSCORE} :
        /\ Occurrences(line, c) >= 3
        /\ \/ \A k \in 1..Len(line) : line[k] = c
           \/ /\ Len(line) % 2 = 1
              /\ \A k \in 1..Len(line) :
                    line[k] = (IF k % 2 = 1 THEN c ELSE BLANK)

\* C24: outside a fenced code block, every line of three or more of one of
\* '-', '*', '_', with blanks between them or not, is rendered as the
\* divider, before it is taken for a list item, a quote or a text.
C24_RulesAreDividers ==
    (/\ md_out.some /\ md_out.by = "render_markdown"
     /\ \A k \in 1..Len(lines(md_src)) :
           ~starts_with(lines(md_src)[k], FENCE)) =>
        LET ls == lines(md_src) IN
        md_out.out =
           Flatten([ k \in 1..Len(ls) |->
                       IF RuleLine(ls[k]) THEN DIVIDER
                       ELSE markdown_iter(<<ls[k]>>, 0).out ])

\* the position after the iteration of the loop of parse_ansi_line at i
ansi_next(bytes, i) ==
    IF bytes[i + 1] = ESC /\ i + 1 < Len(bytes) /\ bytes[i + 2] = LBRACKET
    THEN scan_params(bytes, i + 2, <<>>, None).i
    ELSE i + 1

\* C25: the scanners terminate: at every position of every input the
\* iteration of parse_ansi_line, of render_inline and of the line loop of
\* render_markdown ends at a later position that is not beyond the end.
C25_ScannersAdvance ==
    /\ LET bytes == Encode(ansi_src) IN
       \A i \in 0..(Len(bytes) - 1) :
           ansi_next(bytes, i) > i /\ ansi_next(bytes, i) <= Len(bytes)
    /\ LET ls == lines(md_src) IN
       /\ \A k \in 1..Len(ls) : \A i \in 0..(Len(ls[k]) - 1) :
             /\ inline_iter(ls[k], i).i > i
             /\ inline_iter(ls[k], i).i <= Len(ls[k])
       /\ \A k \in 0..(Len(ls) - 1) :
             /\ markdown_iter(ls, k).i > k
             /\ markdown_iter(ls, k).i <= Len(ls)

\* a fence that is not closed has been rendered to the end of the text
C25_Witness ==
    /\ md_out.some /\ md_out.by = "render_markdown"
    /\ md_src = JoinLines(<<FENCE, <<DASH, BLANK, CH_a>>>>)
    /\ md_out.out = <<BLANK, BLANK>> \o DIM \o <<DASH, BLANK, CH_a>> \o RESET
                    \o <<LF, LF>>

-----------------------------------------------------------------------------
(* Claims about the start of the program, checked in SpecStart.            *)

\* C26: the root is the canonical form of the path argument; without an
\* argument, or with one that cannot be canonicalized, the root is the
\* current directory.
C26_RootFromArgument ==
    started_root.some =>
        started_root.v =
            (IF /\ argv1.some
                /\ canonical(disk, absolute_path(argv1, cwd)).ok
             THEN canonical(disk, absolute_path(argv1, cwd)).path
             ELSE cwd)

-----------------------------------------------------------------------------
(* Claims about the commands of the application, checked in Spec.          *)

\* C27: while the rows are those of the filesystem, collapse_or_parent on
\* an expanded directory takes the path of the row, and no other, out of
\* the expanded set and leaves the selection on the row; on any other row
\* it leaves the expanded set and the rows as they are and selects the row
\* of the parent directory, which for a row at depth 0 is the row itself:
\* nothing changes then.
C27_CollapseOrParent ==
    (/\ RowsReflect(visible_rows, disk, enum_rev, expanded, show_hidden)
     /\ selected_index < Len(visible_rows)) =>
        LET a1 == collapse_or_parent(disk, enum_rev, app) IN
        IF SelRow.is_directory /\ SelRow.is_expanded
        THEN /\ a1.expanded = expanded \ {SelRow.path}
             /\ SelRow.path \in expanded
             /\ a1.selected_index = selected_index
             /\ a1.visible_rows[selected_index + 1] =
                   [SelRow EXCEPT !.is_expanded = FALSE]
        ELSE /\ a1.expanded = expanded
             /\ a1.visible_rows = visible_rows
             /\ a1.tree = tree
             /\ a1.show_hidden = show_hidden
             /\ a1.selected_index =
                   find_parent_row(visible_rows, selected_index)
             /\ IF SelRow.depth = 0 THEN a1 = app
                ELSE /\ a1.selected_index < selected_index
                     /\ a1.visible_rows[a1.selected_index + 1].path =
                           Parent(SelRow.path)

\* the selected row is an expanded directory with an expanded directory in
\* it, and find_parent_row leads from a row two levels below back to it
C27_Witness ==
    /\ RowsReflect(visible_rows, disk, enum_rev, expanded, show_hidden)
    /\ selected_index < Len(visible_rows)
    /\ SelRow.is_expanded
    /\ \E q \in expanded : q # SelRow.path /\ IsPrefix(SelRow.path, q)
    /\ \E i \in RowIndexes :
          /\ i > selected_index
          /\ visible_rows[i + 1].depth > SelRow.depth + 1
          /\ find_parent_row(visible_rows,
                             find_parent_row(visible_rows, i))
                = selected_index

-----------------------------------------------------------------------------
(* Claims about every state the commands reach, with the preview scroll    *)
(* and the changes of other processes to the filesystem: checked in        *)
(* SpecSelect.                                                             *)

\* C28: in every reachable state selected_index is an index of
\* visible_rows, or 0 when there are no rows.
C28_SelectionValid ==
    IF Len(visible_rows) = 0 THEN selected_index = 0
    ELSE selected_index >= 0 /\ selected_index < Len(visible_rows)

\* the filesystem has lost entries, and the rows a refresh reads are fewer
\* than the index of the selection: refresh selects the last of them
C28_Witness ==
    LET a1 == refresh(disk, enum_rev, app) IN
    /\ fs_changes > 0
    /\ Len(a1.visible_rows) > 0
    /\ selected_index >= Len(a1.visible_rows)
    /\ a1.selected_index = Len(a1.visible_rows) - 1

\* the result of every command on the current state
CommandResults ==
    PreviewSteps
    \cup { click_tree(disk, enum_rev, app, y, h) :
             y \in ClickYs, h \in Heights }

NoPreview == [content |-> [kind |-> "Empty"], total_lines |-> 0]

\* C29: after every command last_preview_path is the path of the selected
\* row, None when there are no rows; while the filesystem is as it was at
\* the start, the cached preview is the preview of that path.
C29_PreviewKeyIsSelection ==
    /\ last_preview_path = SelectedPath(app)
    /\ \A a1 \in CommandResults : a1.last_preview_path = SelectedPath(a1)
    /\ fs_changes = 0 =>
          preview_cache =
             (IF SelectedPath(app).some
              THEN preview(disk, enum_rev, SelectedPath(app).v)
              ELSE NoPreview)

\* the selection has left the first row for a row with another preview
C29_Witness ==
    /\ fs_changes = 0
    /\ selected_index > 0
    /\ selected_index < Len(visible_rows)
    /\ last_preview_path = Some(SelRow.path)
    /\ preview_cache = preview(disk, enum_rev, SelRow.path)
    /\ preview_cache # preview(disk, enum_rev, visible_rows[1].path)

\* C30: in every reachable state a row is expanded exactly when it is a
\* directory whose path is in the expanded set, and a command adds to the
\* expanded set only the path of a row that is a directory.
C30_ExpandedFlagAgrees ==
    /\ \A i \in 1..Len(visible_rows) :
          visible_rows[i].is_expanded <=>
             (visible_rows[i].is_directory
              /\ visible_rows[i].path \in expanded)
    /\ \A a1 \in CommandResults :
          /\ \A q \in a1.expanded \ expanded :
                \E i \in 1..Len(visible_rows) :
                    /\ visible_rows[i].path = q
                    /\ visible_rows[i].is_directory
          /\ \A i \in 1..Len(a1.visible_rows) :
                a1.visible_rows[i].is_expanded <=>
                   (a1.visible_rows[i].is_directory
                    /\ a1.visible_rows[i].path \in a1.expanded)

\* an expanded directory, a directory that is not, a file, and in the
\* expanded set a path that no row shows
C30_Witness ==
    /\ \E i \in 1..Len(visible_rows) : visible_rows[i].is_expanded
    /\ \E i \in 1..Len(visible_rows) :
          visible_rows[i].is_directory /\ ~visible_rows[i].is_expanded
    /\ \E i \in 1..Len(visible_rows) : ~visible_rows[i].is_directory
    /\ \E q \in expanded :
          \A i \in 1..Len(visible_rows) : visible_rows[i].path # q

-----------------------------------------------------------------------------
(* A claim about 38 and 48 without a whole colour, checked in SpecAnsi.    *)

\* a parameter list that is a 38 or 48 and no whole colour: nothing after
\* it, a mode 5 without N, a mode 2 with fewer than three components, or
\* one mode that is neither 5 nor 2
IsCutShort(params) ==
    /\ Len(params) >= 1
    /\ params[1] \in {38, 48}
    /\ \A i \in 1..Len(params) : params[i] >= 0 /\ params[i] < U16
    /\ \/ Len(params) = 1
       \/ Len(params) = 2
       \/ params[2] = 2 /\ Len(params) <= 4

\* C31: a 38 or 48 that is not followed by a whole colour changes nothing
\* of the style: what follows it in the sequence is not applied as codes
\* of its own (38;2;1 sets neither dim nor bold).
C31_CutShortIgnored ==
    ansi_line.parsed =>
        \A k \in 1..(Len(ansi_src) - 1) :
            (/\ ansi_src[k].kind = "csi"
             /\ ansi_src[k].term = LOWER_M
             /\ ansi_src[k + 1].kind = "text"
             /\ AllSimple(SubSeq(ansi_src, 1, k - 1))
             /\ IsCutShort(ansi_src[k].params)) =>
                /\ ~ansi_line.panicked
                /\ RunOf(k + 1).style =
                      StyleFrom(Style_default,
                                CodesOf(SubSeq(ansi_src, 1, k - 1)))

====
